---- MODULE Spec2Model ----
(***************************************************************************)
(* MAHORAGA twitter-agent: the visual-extraction harvest                   *)
(* (TwitterAutonomousAgent.searchTwitter), its initialisation, its cleanup *)
(* of screenshot artifacts and the HTTP front door that invokes it.        *)
(*                                                                         *)
(* Each HTTP request is served by one handler (a "session"); a session is  *)
(* a program counter over the await points of the handler and of the agent *)
(* methods it calls.  The agent object (initialized, screenshotPaths) and  *)
(* the working directory (files) are shared by all sessions.               *)
(***************************************************************************)
EXTENDS Integers, Sequences, FiniteSets, TLC

\* ------------------------------------------------------------------ bounds

\* Longest batch of candidates one oracle answer (or one snapshot) carries.
MaxBatch == 2

\* The iteration budget of the extraction loop in the specifications that
\* explore every behaviour of the collaborators (SpecFullBudget runs the
\* program's maxScrollAttempts).
IterBudget == 4

\* ------------------------------------------------------- program constants

maxScrollAttempts == 50
maxConsecutiveEmpty == 5
StuckThreshold == 3
maxVerifyAttempts == 8
MinPrefetchScrolls == 5
TopScrolls == 10
RescanRetries == 3
KeyPrefixLen == 150
MinKeyLen == 10
MinMaxResults == 1
MaxMaxResults == 50
DefaultMaxResults == 10
NewsTarget == 5
MaxSymbols == 3
LoopSurplus == 3
RescanSurplus == 2
MAX_NEWS_AGE_MS == 1800000
BREAKING_THRESHOLD_MS == 600000
HeadlineLen == 200
MsPerMinute == 60000

\* -------------------------------------------------------------------- text
\* A text is a run-length encoded string: a sequence of runs <<c, n>>, the
\* character c repeated n times.  The string operations of the source are
\* computed on the runs.

Max(a, b) == IF a >= b THEN a ELSE b
Min(a, b) == IF a <= b THEN a ELSE b

\* The letters, each as <<upper case, lower case>>.
Letters ==
    {<<"A", "a">>, <<"B", "b">>, <<"C", "c">>, <<"D", "d">>, <<"E", "e">>, <<"F", "f">>,
     <<"G", "g">>, <<"H", "h">>, <<"I", "i">>, <<"J", "j">>, <<"K", "k">>, <<"L", "l">>,
     <<"M", "m">>, <<"N", "n">>, <<"O", "o">>, <<"P", "p">>, <<"Q", "q">>, <<"R", "r">>,
     <<"S", "s">>, <<"T", "t">>, <<"U", "u">>, <<"V", "v">>, <<"W", "w">>, <<"X", "x">>,
     <<"Y", "y">>, <<"Z", "z">>}

\* String.prototype.toLowerCase on one character.
LowerChar(c) ==
    LET hit == {l \in Letters : l[1] = c} IN
    IF hit = {} THEN c ELSE (CHOOSE l \in hit : TRUE)[2]

\* String.prototype.toUpperCase on one character.
UpperChar(c) ==
    LET hit == {l \in Letters : l[2] = c} IN
    IF hit = {} THEN c ELSE (CHOOSE l \in hit : TRUE)[1]

RECURSIVE Canon(_)
\* The canonical run-length form: no empty run, no two adjacent runs of the
\* same character (two texts are the same string iff their forms are equal).
Canon(t) ==
    IF t = << >> THEN << >>
    ELSE IF t[1][2] = 0 THEN Canon(Tail(t))
    ELSE LET r == Canon(Tail(t)) IN
         IF r # << >> /\ r[1][1] = t[1][1]
         THEN << <<t[1][1], t[1][2] + r[1][2]>> >> \o Tail(r)
         ELSE << t[1] >> \o r

RECURSIVE TextLen(_)
\* String.prototype.length
TextLen(t) == IF t = << >> THEN 0 ELSE t[1][2] + TextLen(Tail(t))

RECURSIVE Substring(_, _)
\* text.substring(0, n)
Substring(t, n) ==
    IF t = << >> \/ n <= 0 THEN << >>
    ELSE IF t[1][2] >= n THEN << <<t[1][1], n>> >>
    ELSE << t[1] >> \o Substring(Tail(t), n - t[1][2])

\* String.prototype.toLowerCase
ToLowerCase(t) == Canon([i \in 1..Len(t) |-> <<LowerChar(t[i][1]), t[i][2]>>])

\* String.prototype.toUpperCase
ToUpperCase(t) == Canon([i \in 1..Len(t) |-> <<UpperChar(t[i][1]), t[i][2]>>])

\* The text whose characters are those of the sequence q, and a + b.
Str(q) == Canon([k \in 1..Len(q) |-> <<q[k], 1>>])
Concat(a, b) == Canon(a \o b)

RECURSIVE Chars(_)
\* The characters of a text, one by one.
Chars(t) ==
    IF t = << >> THEN << >>
    ELSE [k \in 1..t[1][2] |-> t[1][1]] \o Chars(Tail(t))

\* String.prototype.includes
Includes(t, u) ==
    LET hay == Chars(t)
        needle == Chars(u) IN
    \E k \in 0..(Len(hay) - Len(needle)) : SubSeq(hay, k + 1, k + Len(needle)) = needle

RECURSIVE RemoveFirst(_, _)
\* text.replace(ch, ''): the first occurrence of the character ch is removed.
RemoveFirst(t, ch) ==
    IF t = << >> THEN << >>
    ELSE IF t[1][1] = ch THEN Canon(<< <<ch, t[1][2] - 1>> >> \o Tail(t))
    ELSE Canon(<< t[1] >> \o RemoveFirst(Tail(t), ch))

RECURSIVE TrimStart(_)
TrimStart(t) ==
    IF t # << >> /\ t[1][1] = " " THEN TrimStart(Tail(t)) ELSE t

RECURSIVE TrimEnd(_)
TrimEnd(t) ==
    IF t # << >> /\ t[Len(t)][1] = " " THEN TrimEnd(SubSeq(t, 1, Len(t) - 1)) ELSE t

\* String.prototype.trim
Trim(t) == TrimEnd(TrimStart(Canon(t)))

\* key = (tweet.text || '').substring(0, 150).toLowerCase().trim()
DedupKey(tweet) == Trim(ToLowerCase(Substring(tweet.text, KeyPrefixLen)))

\* A test that lets a key of 10 characters pass.
KeySubstantialLax(key) == key # << >> /\ TextLen(key) >= MinKeyLen

\* key && key.length > 10
KeySubstantial(key) == key # << >> /\ TextLen(key) > MinKeyLen

\* The texts the oracle and the snapshot report in this model.
TxtHead == << <<"A", 1>>, <<"a", 10>> >>
TxtHeadPadded == << <<" ", 1>>, <<"a", 11>>, <<" ", 2>> >>
TxtLong == << <<"b", 150>>, <<"x", 1>> >>
TxtShort == << <<"c", 10>> >>
TxtNone == << >>

Texts == {TxtHead, TxtHeadPadded, TxtLong, TxtShort, TxtNone}

\* The timestamp of a candidate: none, an ISO date of the instant at (in
\* milliseconds), or a relative one such as "2h ago" written for the instant
\* at (the extraction prompt offers both forms).
NoTimestamp == [kind |-> "none", at |-> 0]
Iso(at) == [kind |-> "iso", at |-> at]
Relative(at) == [kind |-> "relative", at |-> at]

\* A candidate item as the oracle reports it; Candidate(t) has the text t, no
\* author and no timestamp.
Candidate(t) == [text |-> t, author |-> TxtNone, created_at |-> NoTimestamp]
Candidates == {Candidate(t) : t \in Texts \ {TxtNone}}

RECURSIVE SeqsUpTo(_, _)
SeqsUpTo(S, n) ==
    IF n = 0 THEN {<< >>}
    ELSE LET shorter == SeqsUpTo(S, n - 1) IN
         shorter \cup {Append(q, x) : q \in {r \in shorter : Len(r) = n - 1}, x \in S}

Batches == SeqsUpTo(Candidates, MaxBatch)

\* --------------------------------------------------------- JavaScript values
\* A value of a JSON request body: its typeof, its numeric value and, for a
\* string, its characters.
JsUndefined == [type |-> "undefined", num |-> 0, str |-> ""]
JsNull == [type |-> "object", num |-> 0, str |-> ""]
JsNumber(n) == [type |-> "number", num |-> n, str |-> ""]
JsString(chars) == [type |-> "string", num |-> 0, str |-> chars]

\* ToBoolean(v)
Truthy(v) ==
    CASE v.type = "number" -> v.num # 0
      [] v.type = "string" -> v.str # ""
      [] OTHER -> FALSE

\* ToNumber(v) of a value that reaches a comparison or an arithmetic operator
\* of searchTwitter: a number is itself, null and '' are 0.
ToNumber(v) == IF v.type = "number" THEN v.num ELSE 0

\* The request bodies of the model.
QueryInputs == {JsString("$AAPL"), JsString(""), JsUndefined, JsNumber(7)}
MaxResultsInputs ==
    {JsUndefined, JsNull, JsString(""), JsString("ten"),
     JsNumber(-1), JsNumber(0), JsNumber(1), JsNumber(2), JsNumber(50), JsNumber(51)}
NotAnArray == [isArray |-> FALSE, items |-> << >>]
JsArray(q) == [isArray |-> TRUE, items |-> q]
Symbol ==
    [AAPL |-> Str(<<"A", "A", "P", "L">>), TSLA |-> Str(<<"T", "S", "L", "A">>),
     NVDA |-> Str(<<"N", "V", "D", "A">>), MSFT |-> Str(<<"M", "S", "F", "T">>)]
SymbolsInputs ==
    {NotAnArray, JsArray(<< >>), JsArray(<<Symbol.AAPL>>),
     JsArray(<<Symbol.AAPL, Symbol.TSLA, Symbol.NVDA, Symbol.MSFT>>)}

\* ------------------------------------------------------------------- state

\* The handlers that can be in flight, and the owner of the screenshot taken
\* by the agent.init() the server runs when it starts.
Sessions == {1, 2}
Startup == 0

VARIABLES
    initialized,      \* TwitterAutonomousAgent.initialized
    screenshotPaths,  \* TwitterAutonomousAgent.screenshotPaths: the owners of the tracked paths
    files,            \* twitter-screenshot-*.png files in the working directory, by owner
    connected,        \* whether Chrome answers on its debugging port
    scrollBudget,     \* the iteration budget the extraction loop runs with
    parser,           \* the call of extractExplicitTickers: its arguments and its result
    monitor,          \* scripts/health-monitor.js: its state and its health checks in flight
    worker,           \* the dashboard's service worker: its cache and the fetch event it handles
    sess              \* per handler: its position and the locals of the call

vars == <<initialized, screenshotPaths, files, connected, scrollBudget, parser, monitor, worker, sess>>

\* No call of extractExplicitTickers: the feed parsers are a library apart from
\* the agent.
NoCall == [parts |-> << >>, text |-> << >>, blacklist |-> {}, tickers |-> << >>, done |-> FALSE]

\* The health monitor as its script starts: let consecutiveFailures = 0,
\* let isRestarting = false, DISCORD_WEBHOOK_URL set or not (discord), and no
\* runHealthCheck in flight.  A runHealthCheck is at the await of checkHealth
\* ("health"), of checkAgentStatus ("status"), of enableAgent ("enable"), of
\* the notification sent before the restart ("notify"), of execAsync ("pm2")
\* or of the notification sent after it ("notified").  Read by the properties
\* only: what the last checkHealth of the invocation answered, the value of
\* consecutiveFailures it saw once incremented, whether its restartService
\* returned at once, and the failed checks in a row since the last healthy one
\* or the last restart that succeeded (streak).
IdleMonitor ==
    [consecutiveFailures |-> 0, isRestarting |-> FALSE, discord |-> FALSE,
     check |-> [k \in {1, 2} |-> [pc |-> "idle", healthy |-> TRUE, at |-> 0, skipped |-> FALSE]],
     streak |-> 0]

\* The service worker once installed and activated, no fetch event in flight:
\* the URLs its cache holds, the cache.put calls not yet done, and the fetch
\* event with the request and where its response came from.
IdleWorker ==
    [cache |-> {}, pending |-> {},
     event |-> [pc |-> "none",
                request |-> [method |-> "GET", sameOrigin |-> TRUE, path |-> TxtNone,
                             document |-> FALSE],
                answer |-> "none"]]

\* A handler that is not serving a request.
IdleSession ==
    [pc |-> "idle", kind |-> "none", maxResults |-> JsUndefined, symbols |-> NotAnArray,
     target |-> 0, verifyAttempts |-> 0, i |-> 0,
     allTweets |-> << >>, seen |-> {}, scrollAttempts |-> 0,
     consecutiveEmptyScreenshots |-> 0, lastTweetCount |-> 0, stuckCount |-> 0,
     result |-> << >>, outcome |-> "none", http |-> "none",
     \* history of the call, read by the properties only
     via |-> "none", issued |-> FALSE, failed |-> FALSE, artifacts |-> FALSE,
     rescanPasses |-> 0, raiseCause |-> "none", connAtStart |-> TRUE,
     \* the oracle answer the last step merged (<< >> when the last step merged none)
     answer |-> << >>,
     \* iterations of the extraction loop whose outcome is recorded, whether one
     \* of them added no item, and how many in a row did since the last growth
     \* or the last aggressive scroll
     iterations |-> 0, barren |-> FALSE, barrenRun |-> 0,
     \* aggressive scrolls done, whether the oracle ever reported a candidate,
     \* extraction calls made after the loop
     recoveries |-> 0, candidates |-> FALSE, finalExtractions |-> 0,
     \* polls of verifySearchResults in the verify loop and whether one of them
     \* saw the results loaded (kept until the scrolls to the top are done)
     polls |-> 0, confirmed |-> FALSE,
     \* the number of tweets asked of the oracle call that is pending (0: none is)
     requested |-> 0,
     \* scrolls received by the browser in the prefetch loop and in the loop
     \* that goes back to the top
     downs |-> 0, ups |-> 0,
     \* the number of the iteration that did the last aggressive scroll (0: none)
     recoveredAt |-> 0,
     \* checkBreakingNews: its results, and whether its loop has run
     news |-> << >>, classified |-> FALSE]

\* The server has started and its agent.init() has finished: it failed, or it
\* succeeded and left at most the path of its screenshot tracked.
Init ==
    /\ scrollBudget = IterBudget
    /\ connected = TRUE
    /\ initialized \in BOOLEAN
    /\ screenshotPaths \in (IF initialized THEN {{}, {Startup}} ELSE {{}})
    /\ files = screenshotPaths
    /\ parser = NoCall
    /\ monitor = IdleMonitor
    /\ worker = IdleWorker
    /\ sess = [s \in Sessions |-> IdleSession]

\* ---------------------------------------------------------------- helpers

\* A prefetch that does not grow with the number of tweets asked for.
ScrollCountFlat(maxResults) == MinPrefetchScrolls

\* const scrollCount = Math.max(5, Math.ceil(maxResults / 2))
ScrollCount(maxResults) == Max(MinPrefetchScrolls, (maxResults + 1) \div 2)

\* array.slice(0, n)
Slice(q, n) == SubSeq(q, 1, Min(Len(q), Max(n, 0)))

\* Date.now(), in milliseconds: the clock stands still during a call.
Now == 6000000

\* 'unknown'
Unknown == Str(<<"u", "n", "k", "n", "o", "w", "n">>)

\* The Tweet built from candidate number index of an oracle answer:
\* created_at: tweet.created_at || new Date().toISOString(),
\* author: tweet.author?.replace('@', '') || 'unknown'
ToTweet(c, index) ==
    [id |-> <<"browser", index>>,
     text |-> c.text,
     created_at |-> IF c.created_at.kind # "none" THEN c.created_at ELSE Iso(Now),
     author |-> IF RemoveFirst(c.author, "@") # << >> THEN RemoveFirst(c.author, "@")
                ELSE Unknown]
ToTweets(q) == [k \in 1..Len(q) |-> ToTweet(q[k], k - 1)]

RECURSIVE MergeFromNoSeen(_, _, _, _)
\* The merge without the test !seen.has(key).
MergeFromNoSeen(acc, tweets, k, maxResults) ==
    IF k > Len(tweets) THEN acc
    ELSE LET key == DedupKey(tweets[k]) IN
         IF KeySubstantial(key)
         THEN LET grown == [allTweets |-> Append(acc.allTweets, tweets[k]),
                            seen |-> acc.seen \cup {key}] IN
              IF Len(grown.allTweets) >= maxResults THEN grown
              ELSE MergeFromNoSeen(grown, tweets, k + 1, maxResults)
         ELSE MergeFromNoSeen(acc, tweets, k + 1, maxResults)

RECURSIVE MergeFromForgetful(_, _, _, _)
\* The merge without seen.add(key).
MergeFromForgetful(acc, tweets, k, maxResults) ==
    IF k > Len(tweets) THEN acc
    ELSE LET key == DedupKey(tweets[k]) IN
         IF KeySubstantial(key) /\ key \notin acc.seen
         THEN LET grown == [allTweets |-> Append(acc.allTweets, tweets[k]),
                            seen |-> acc.seen] IN
              IF Len(grown.allTweets) >= maxResults THEN grown
              ELSE MergeFromForgetful(grown, tweets, k + 1, maxResults)
         ELSE MergeFromForgetful(acc, tweets, k + 1, maxResults)

RECURSIVE MergeFrom(_, _, _, _)
\* for (const tweet of tweets) { key...; if (key && key.length > 10 &&
\* !seen.has(key)) { seen.add(key); allTweets.push(tweet); if
\* (allTweets.length >= maxResults) break; } }  from candidate k on.
MergeFrom(acc, tweets, k, maxResults) ==
    IF k > Len(tweets) THEN acc
    ELSE LET key == DedupKey(tweets[k]) IN
         IF KeySubstantial(key) /\ key \notin acc.seen
         THEN LET grown == [allTweets |-> Append(acc.allTweets, tweets[k]),
                            seen |-> acc.seen \cup {key}] IN
              IF Len(grown.allTweets) >= maxResults THEN grown
              ELSE MergeFrom(grown, tweets, k + 1, maxResults)
         ELSE MergeFrom(acc, tweets, k + 1, maxResults)

\* The merge without the break at maxResults.
MergeNoBreak(acc, tweets, maxResults) == MergeFrom(acc, tweets, 1, maxResults + Len(tweets) + 1)

Merge(acc, tweets, maxResults) == MergeFrom(acc, tweets, 1, maxResults)

\* A loop that gives up one iteration before its budget.
LoopConditionShort(c) ==
    Len(c.allTweets) < c.target /\ c.scrollAttempts < scrollBudget - 1

\* while (allTweets.length < maxResults && scrollAttempts < maxScrollAttempts)
LoopCondition(c) ==
    Len(c.allTweets) < c.target /\ c.scrollAttempts < scrollBudget

\* if (allTweets.length < maxResults && scrollAttempts < maxScrollAttempts)
RescanCondition(c) ==
    Len(c.allTweets) < c.target /\ c.scrollAttempts < scrollBudget

\* Where the call goes once the extraction loop is left: the rescan, or the
\* first cleanupScreenshots().
AfterLoop(c) ==
    IF RescanCondition(c)
    THEN [c EXCEPT !.pc = "rs_up", !.i = 0]
    ELSE [c EXCEPT !.pc = "cleanup1", !.i = 0]

\* The test of the while loop, at its head.
LoopHead(c) == IF LoopCondition(c) THEN [c EXCEPT !.pc = "it_shot"] ELSE AfterLoop(c)

\* A threshold that is always reached.
RecoveryThresholdEager(c) ==
    c.stuckCount >= 0 \/ c.consecutiveEmptyScreenshots >= maxConsecutiveEmpty

\* A threshold reached one barren iteration earlier.
RecoveryThresholdEarly(c) ==
    c.stuckCount >= StuckThreshold - 1 \/ c.consecutiveEmptyScreenshots >= maxConsecutiveEmpty

\* A threshold that looks at the consecutive-empty count alone.
RecoveryThresholdEmptyOnly(c) == c.consecutiveEmptyScreenshots >= maxConsecutiveEmpty

\* if (stuckCount >= 3 || consecutiveEmptyScreenshots >= maxConsecutiveEmpty)
RecoveryThreshold(c) ==
    c.stuckCount >= StuckThreshold \/ c.consecutiveEmptyScreenshots >= maxConsecutiveEmpty

\* An iteration that scrolls even when the target is reached.
ScrollOrBreakAlways(c) == [c EXCEPT !.pc = "it_scroll"]

\* if (allTweets.length < maxResults) { scroll ... } else break;
ScrollOrBreak(c) ==
    IF Len(c.allTweets) < c.target THEN [c EXCEPT !.pc = "it_scroll"] ELSE AfterLoop(c)

\* An iteration that never does the aggressive scroll.
AfterOutcomeNoRecovery(c) == ScrollOrBreak(c)

\* The rest of an iteration once its outcome is recorded.
AfterOutcome(c) == IF RecoveryThreshold(c) THEN [c EXCEPT !.pc = "it_aggr"] ELSE ScrollOrBreak(c)

\* for (let retry = 0; retry < 3 && allTweets.length < maxResults; retry++)
RescanHead(c) ==
    IF c.i < RescanRetries /\ Len(c.allTweets) < c.target
    THEN [c EXCEPT !.pc = "rs_shot"]
    ELSE [c EXCEPT !.pc = "cleanup1", !.i = 0]

\* A catch block that forgets the cleanup.
ThrownNoCleanup(c) == [c EXCEPT !.pc = "catch_fb", !.failed = TRUE]

\* A throw inside the try block of searchTwitter: the catch block starts with
\* await this.cleanupScreenshots().catch(() => {}).
Thrown(c) == [c EXCEPT !.pc = "cleanup_catch", !.failed = TRUE]

\* A throw of init(), which searchTwitter awaits outside its try block.
Raised(c) ==
    [c EXCEPT !.pc = "done", !.outcome = "raised", !.failed = TRUE,
              !.raiseCause = IF connected THEN "command" ELSE "unreachable"]

SetSession(s, c) == sess' = [sess EXCEPT ![s] = c]


\* What a browser command can do: succeed (only while Chrome is reachable) or
\* throw.  A screenshot can also succeed without a file ("nopath": the image
\* came from stdout, path '') or throw after the file was written ("fail_left").
CommandOutcomes == {"ok", "fail"}
ScreenshotOutcomes == {"ok", "nopath", "fail", "fail_left"}
Succeeds(r) == r \in {"ok", "nopath"}

\* What extractTweetsFromScreenshot can resolve to (it never throws): a failure
\* (LLM error, unparseable JSON, no tweets field) or an answer whose tweets are
\* an array of candidates.
ExtractionFailure == [success |-> FALSE, tweets |-> << >>]
ExtractionResults == {ExtractionFailure} \cup {[success |-> TRUE, tweets |-> b] : b \in Batches}

\* The elements a snapshot reports: tweets (an article, or testid "tweet")
\* and other elements.
SnapshotElements ==
    {[tag |-> "article", testid |-> "", text |-> TxtHead],
     [tag |-> "div", testid |-> "tweet", text |-> TxtHead],
     [tag |-> "article", testid |-> "", text |-> TxtNone],
     [tag |-> "a", testid |-> "", text |-> TxtLong]}
Snapshots == SeqsUpTo(SnapshotElements, MaxBatch)

\* The effect of screenshot() and of
\* if (screenshotResult.path) this.screenshotPaths.push(screenshotResult.path)
TrackScreenshot(s, r) ==
    /\ screenshotPaths' = IF r = "ok" THEN screenshotPaths \cup {s} ELSE screenshotPaths
    /\ files' = IF r \in {"ok", "fail_left"} THEN files \cup {s} ELSE files

\* --------------------------------------------------------- the HTTP handlers

\* if (!query || typeof query !== 'string') return res.status(400)
QueryRejected(query) == ~Truthy(query) \/ query.type # "string"

\* if (maxResults && (typeof maxResults !== 'number' || maxResults < 1 ||
\*     maxResults > 50)) return res.status(400)
MaxResultsRejected(maxResults) ==
    /\ Truthy(maxResults)
    /\ \/ maxResults.type # "number"
       \/ maxResults.num < MinMaxResults
       \/ maxResults.num > MaxMaxResults

\* if (!Array.isArray(symbols) || symbols.length === 0) return res.status(400)
SymbolsRejected(symbols) == ~symbols.isArray \/ Len(symbols.items) = 0

\* A searchTwitter that runs init() whether or not the agent is initialized.
EnterSearchTwitterAlwaysInit(c, maxResults) ==
    [c EXCEPT !.target = maxResults,
              !.connAtStart = connected,
              !.pc = "init_connect"]

\* The first await of searchTwitter(query, maxResults): init() when the agent
\* is not initialized, browser.open(searchUrl) when it is.
EnterSearchTwitter(c, maxResults) ==
    [c EXCEPT !.target = maxResults,
              !.connAtStart = connected,
              !.pc = IF initialized THEN "open" ELSE "init_connect"]

\* app.post('/twitter/search')
PostSearch(s, query, body) ==
    /\ sess[s].pc = "idle"
    /\ LET maxResults == IF body = JsUndefined THEN JsNumber(DefaultMaxResults) ELSE body
           c == [IdleSession EXCEPT !.kind = "search", !.maxResults = maxResults] IN
       IF QueryRejected(query) \/ MaxResultsRejected(maxResults)
       THEN SetSession(s, [IdleSession EXCEPT !.http = "400"])
       ELSE SetSession(s, EnterSearchTwitter(c, ToNumber(maxResults)))
    /\ UNCHANGED <<initialized, screenshotPaths, files, connected, scrollBudget, parser, monitor, worker>>

\* app.post('/twitter/breaking-news') and the start of checkBreakingNews:
\* const tweets = await this.searchTwitter(newsQuery, 5)
PostBreakingNews(s, symbols) ==
    /\ sess[s].pc = "idle"
    /\ LET c == [IdleSession EXCEPT !.kind = "news", !.symbols = symbols] IN
       IF SymbolsRejected(symbols)
       THEN SetSession(s, [IdleSession EXCEPT !.http = "400"])
       ELSE SetSession(s, EnterSearchTwitter(c, NewsTarget))
    /\ UNCHANGED <<initialized, screenshotPaths, files, connected, scrollBudget, parser, monitor, worker>>

\* res.json({success: true, ...}) after the call returned, res.status(500)
\* after it raised; the handler is free again.
Respond(s) ==
    /\ sess[s].pc = "done"
    /\ (sess[s].kind = "news" /\ sess[s].outcome = "returned") => sess[s].classified
    /\ SetSession(s, [IdleSession EXCEPT
                        !.http = IF sess[s].outcome = "raised" THEN "500" ELSE "200"])
    /\ UNCHANGED <<initialized, screenshotPaths, files, connected, scrollBudget, parser, monitor, worker>>

\* ------------------------------------------------------------------ init()

\* const connected = await this.browser.isConnected(); if (!connected) throw
InitConnect(s) ==
    /\ sess[s].pc = "init_connect"
    /\ SetSession(s, IF connected THEN [sess[s] EXCEPT !.pc = "init_tabs"]
                     ELSE Raised(sess[s]))
    /\ UNCHANGED <<initialized, screenshotPaths, files, connected, scrollBudget, parser, monitor, worker>>

\* const tabs = await this.browser.listTabs(); twitterTab = tabs.find(...)
InitTabs(s, r, twitterTab) ==
    /\ sess[s].pc = "init_tabs"
    /\ Succeeds(r) => connected
    /\ SetSession(s, [sess[s] EXCEPT !.pc =
            IF r = "fail" THEN "init_open_catch"
            ELSE IF twitterTab THEN "init_switch" ELSE "init_open"])
    /\ UNCHANGED <<initialized, screenshotPaths, files, connected, scrollBudget, parser, monitor, worker>>

\* await this.browser.switchTab(twitterTab.id)
InitSwitch(s, r) ==
    /\ sess[s].pc = "init_switch"
    /\ Succeeds(r) => connected
    /\ SetSession(s, [sess[s] EXCEPT !.pc = IF r = "fail" THEN "init_open_catch" ELSE "init_url"])
    /\ UNCHANGED <<initialized, screenshotPaths, files, connected, scrollBudget, parser, monitor, worker>>

\* const currentUrl = await this.browser.getCurrentUrl();
\* if (!currentUrl.includes('/home')) open
InitUrl(s, r, home) ==
    /\ sess[s].pc = "init_url"
    /\ Succeeds(r) => connected
    /\ SetSession(s, [sess[s] EXCEPT !.pc =
            IF r = "fail" THEN "init_open_catch"
            ELSE IF home THEN "init_shot" ELSE "init_open"])
    /\ UNCHANGED <<initialized, screenshotPaths, files, connected, scrollBudget, parser, monitor, worker>>

\* await this.browser.open('https://twitter.com/home'), inside the try block
\* (a throw is caught) and inside its catch block (a throw leaves init()).
InitOpen(s, r) ==
    /\ sess[s].pc \in {"init_open", "init_open_catch"}
    /\ Succeeds(r) => connected
    /\ LET c == [sess[s] EXCEPT !.issued = TRUE] IN
       SetSession(s, IF r = "ok" THEN [c EXCEPT !.pc = "init_shot"]
                     ELSE IF c.pc = "init_open" THEN [c EXCEPT !.pc = "init_open_catch"]
                     ELSE Raised(c))
    /\ UNCHANGED <<initialized, screenshotPaths, files, connected, scrollBudget, parser, monitor, worker>>

\* const screenshotResult = await this.browser.screenshot(); push its path
InitScreenshot(s, r) ==
    /\ sess[s].pc = "init_shot"
    /\ Succeeds(r) => connected
    /\ TrackScreenshot(s, r)
    /\ LET c == [sess[s] EXCEPT !.issued = TRUE,
                                !.artifacts = (@ \/ r \in {"ok", "fail_left"})] IN
       SetSession(s, IF Succeeds(r) THEN [c EXCEPT !.pc = "init_auth"] ELSE Raised(c))
    /\ UNCHANGED <<initialized, connected, scrollBudget, parser, monitor, worker>>

\* const authCheck = await this.llm.checkAuthentication(screenshot);
\* whatever it answers, this.initialized = true
InitAuth(s) ==
    /\ sess[s].pc = "init_auth"
    /\ initialized' = TRUE
    /\ SetSession(s, [sess[s] EXCEPT !.pc = "open"])
    /\ UNCHANGED <<screenshotPaths, files, connected, scrollBudget, parser, monitor, worker>>

\* ---------------------------------------------------------- searchTwitter()

\* await this.browser.open(searchUrl)
Open(s, r) ==
    /\ sess[s].pc = "open"
    /\ Succeeds(r) => connected
    /\ LET c == [sess[s] EXCEPT !.issued = TRUE] IN
       SetSession(s, IF r = "ok" THEN [c EXCEPT !.pc = "shot0"] ELSE Thrown(c))
    /\ UNCHANGED <<initialized, screenshotPaths, files, connected, scrollBudget, parser, monitor, worker>>

\* Where a screenshot outside the extraction loop leads: the verify loop
\* (verifyAttempts++ after its retake), the check before extraction, the
\* rescan, the final extraction.
AfterScreenshot(c) ==
    CASE c.pc = "shot0" -> [c EXCEPT !.pc = "verify"]
      [] c.pc = "vshot" -> [c EXCEPT !.pc = "verify", !.verifyAttempts = @ + 1]
      [] c.pc = "vcheck_shot" -> [c EXCEPT !.pc = "vcheck"]
      [] c.pc = "vcheck_shot2" -> [c EXCEPT !.pc = "vcheck2"]
      [] c.pc = "rs_shot" ->
           [c EXCEPT !.pc = "rs_extract", !.requested = c.target * RescanSurplus]
      [] c.pc = "final_shot" -> [c EXCEPT !.pc = "final_extract", !.requested = c.target]

\* await this.browser.screenshot() and the push of its path, anywhere in the
\* try block but in the extraction loop: a throw goes to the catch block.
Screenshot(s, r) ==
    /\ sess[s].pc \in {"shot0", "vshot", "vcheck_shot", "vcheck_shot2", "rs_shot", "final_shot"}
    /\ Succeeds(r) => connected
    /\ TrackScreenshot(s, r)
    /\ LET c == [sess[s] EXCEPT !.issued = TRUE, !.answer = << >>,
                                !.artifacts = (@ \/ r \in {"ok", "fail_left"})] IN
       SetSession(s, IF Succeeds(r) THEN AfterScreenshot(c) ELSE Thrown(c))
    /\ UNCHANGED <<initialized, connected, scrollBudget, parser, monitor, worker>>

\* A catch that does not count the failed screenshot in stuckCount.
ScreenshotErrorNoStuck(c) ==
    [c EXCEPT !.consecutiveEmptyScreenshots = @ + 1, !.failed = TRUE,
              !.iterations = @ + 1, !.barren = TRUE, !.barrenRun = @ + 1]

\* catch (screenshotError) { consecutiveEmptyScreenshots++; stuckCount++; }
ScreenshotError(c) ==
    [c EXCEPT !.consecutiveEmptyScreenshots = @ + 1, !.stuckCount = @ + 1, !.failed = TRUE,
              !.iterations = @ + 1, !.barren = TRUE, !.barrenRun = @ + 1]

\* The second argument of extractTweetsFromScreenshot(screenshot, maxResults * 3)
LoopRequest(c) == c.target * LoopSurplus

\* The screenshot of one extraction iteration: a throw is caught in the loop.
LoopScreenshot(s, r) ==
    /\ sess[s].pc = "it_shot"
    /\ Succeeds(r) => connected
    /\ TrackScreenshot(s, r)
    /\ LET c == [sess[s] EXCEPT !.issued = TRUE, !.answer = << >>,
                                !.artifacts = (@ \/ r \in {"ok", "fail_left"})] IN
       SetSession(s, IF Succeeds(r)
                     THEN [c EXCEPT !.pc = "it_extract", !.requested = LoopRequest(c)]
                     ELSE AfterOutcome(ScreenshotError(c)))
    /\ UNCHANGED <<initialized, connected, scrollBudget, parser, monitor, worker>>

\* A verify loop whose exhaustion is an error.
AfterVerifyFatal(c, loaded) ==
    LET d == [c EXCEPT !.polls = @ + 1, !.confirmed = loaded] IN
    IF loaded THEN [d EXCEPT !.pc = "prefetch", !.verifyAttempts = 0, !.i = 0]
    ELSE IF d.verifyAttempts < maxVerifyAttempts - 1 THEN [d EXCEPT !.pc = "vshot"]
    ELSE Thrown(d)

\* The verify loop: break when the results are loaded; otherwise retake the
\* screenshot while verifyAttempts < maxVerifyAttempts - 1; verifyAttempts++.
\* (verifyAttempts is not read after the loop and is left at 0.)
AfterVerify(c, loaded) ==
    LET d == [c EXCEPT !.polls = @ + 1, !.confirmed = loaded] IN
    IF loaded THEN [d EXCEPT !.pc = "prefetch", !.verifyAttempts = 0, !.i = 0]
    ELSE IF d.verifyAttempts < maxVerifyAttempts - 1 THEN [d EXCEPT !.pc = "vshot"]
    ELSE [d EXCEPT !.pc = "prefetch", !.verifyAttempts = 0, !.i = 0]

\* await this.llm.verifySearchResults(screenshot): in the verify loop, and
\* twice at most before the extraction starts ("proceeding anyway").
Verify(s, loaded) ==
    /\ sess[s].pc \in {"verify", "vcheck", "vcheck2"}
    /\ LET c == [sess[s] EXCEPT !.issued = TRUE] IN
       SetSession(s,
         CASE c.pc = "verify" -> AfterVerify(c, loaded)
           [] c.pc = "vcheck" -> IF loaded THEN LoopHead(c) ELSE [c EXCEPT !.pc = "vcheck_shot2"]
           [] c.pc = "vcheck2" -> LoopHead(c))
    /\ UNCHANGED <<initialized, screenshotPaths, files, connected, scrollBudget, parser, monitor, worker>>

\* A loop whose scroll does not count the attempt.
AfterScrollNoCount(c) ==
    CASE c.pc = "prefetch" ->
           IF c.i + 1 < ScrollCount(c.target) THEN [c EXCEPT !.i = @ + 1]
           ELSE [c EXCEPT !.pc = "top", !.i = 0]
      [] c.pc = "top" ->
           IF c.i + 1 < TopScrolls THEN [c EXCEPT !.i = @ + 1]
           ELSE [c EXCEPT !.pc = "vcheck_shot", !.i = 0, !.polls = 0, !.confirmed = FALSE]
      [] c.pc = "it_aggr" ->
           ScrollOrBreak([c EXCEPT !.consecutiveEmptyScreenshots = 0, !.stuckCount = 0,
                                   !.recoveries = @ + 1, !.barrenRun = 0])
      [] c.pc = "it_scroll" -> LoopHead(c)
      [] c.pc = "rs_up" -> RescanHead([c EXCEPT !.i = 0])
      [] c.pc = "rs_scroll" -> RescanHead([c EXCEPT !.i = @ + 1])

\* Where a scroll that succeeded leads.
AfterScroll(c) ==
    CASE c.pc = "prefetch" ->
           IF c.i + 1 < ScrollCount(c.target) THEN [c EXCEPT !.i = @ + 1]
           ELSE [c EXCEPT !.pc = "top", !.i = 0]
      [] c.pc = "top" ->
           IF c.i + 1 < TopScrolls THEN [c EXCEPT !.i = @ + 1]
           ELSE [c EXCEPT !.pc = "vcheck_shot", !.i = 0, !.polls = 0, !.confirmed = FALSE]
      [] c.pc = "it_aggr" ->
           ScrollOrBreak([c EXCEPT !.consecutiveEmptyScreenshots = 0, !.stuckCount = 0,
                                   !.recoveries = @ + 1, !.barrenRun = 0])
      [] c.pc = "it_scroll" -> LoopHead([c EXCEPT !.scrollAttempts = @ + 1])
      [] c.pc = "rs_up" -> RescanHead([c EXCEPT !.i = 0])
      [] c.pc = "rs_scroll" -> RescanHead([c EXCEPT !.i = @ + 1])

\* await this.browser.scroll(direction, pixels): the prefetch scrolls, the
\* scrolls to the top, the aggressive scroll, the scroll of an iteration, the
\* scrolls of the rescan.  A throw goes to the catch block.
Scroll(s, r) ==
    /\ sess[s].pc \in {"prefetch", "top", "it_aggr", "it_scroll", "rs_up", "rs_scroll"}
    /\ Succeeds(r) => connected
    /\ LET c == [sess[s] EXCEPT !.issued = TRUE, !.answer = << >>]
           d == [c EXCEPT !.downs = IF c.pc = "prefetch" THEN @ + 1 ELSE @,
                          !.ups = IF c.pc = "top" THEN @ + 1 ELSE @,
                          !.recoveredAt = IF c.pc = "it_aggr" THEN c.iterations ELSE @] IN
       SetSession(s, IF r = "ok" THEN AfterScroll(d) ELSE Thrown(c))
    /\ UNCHANGED <<initialized, screenshotPaths, files, connected, scrollBudget, parser, monitor, worker>>

\* An iteration that does not count a failed extraction as an empty one.
RecordExtractionNoCount(c, res) ==
    IF res.success /\ Len(res.tweets) > 0
    THEN LET m == Merge([allTweets |-> c.allTweets, seen |-> c.seen], res.tweets, c.target)
             foundNewTweets == Len(m.allTweets) - Len(c.allTweets) > 0 IN
         [c EXCEPT !.allTweets = m.allTweets,
                   !.seen = m.seen,
                   !.consecutiveEmptyScreenshots = IF foundNewTweets THEN 0 ELSE @ + 1,
                   !.stuckCount = IF foundNewTweets THEN 0
                                  ELSE IF Len(m.allTweets) = c.lastTweetCount THEN @ + 1
                                  ELSE 0,
                   !.lastTweetCount = Len(m.allTweets)]
    ELSE [c EXCEPT !.stuckCount = IF Len(c.allTweets) = c.lastTweetCount THEN @ + 1 ELSE @]

\* An iteration that leaves stuckCount as it is when it finds new tweets.
RecordExtractionNoReset(c, res) ==
    IF res.success /\ Len(res.tweets) > 0
    THEN LET m == Merge([allTweets |-> c.allTweets, seen |-> c.seen], res.tweets, c.target)
             foundNewTweets == Len(m.allTweets) - Len(c.allTweets) > 0 IN
         [c EXCEPT !.allTweets = m.allTweets,
                   !.seen = m.seen,
                   !.consecutiveEmptyScreenshots = IF foundNewTweets THEN 0 ELSE @ + 1,
                   !.stuckCount = IF foundNewTweets THEN @
                                  ELSE IF Len(m.allTweets) = c.lastTweetCount THEN @ + 1
                                  ELSE 0,
                   !.lastTweetCount = Len(m.allTweets)]
    ELSE [c EXCEPT !.consecutiveEmptyScreenshots = @ + 1,
                   !.stuckCount = IF Len(c.allTweets) = c.lastTweetCount THEN @ + 1 ELSE @]

\* The outcome of one extraction iteration is recorded: the candidates are
\* merged and the two counters and lastTweetCount updated.
RecordExtraction(c, res) ==
    IF res.success /\ Len(res.tweets) > 0
    THEN LET m == Merge([allTweets |-> c.allTweets, seen |-> c.seen], res.tweets, c.target)
             foundNewTweets == Len(m.allTweets) - Len(c.allTweets) > 0 IN
         [c EXCEPT !.allTweets = m.allTweets,
                   !.seen = m.seen,
                   !.consecutiveEmptyScreenshots = IF foundNewTweets THEN 0 ELSE @ + 1,
                   !.stuckCount = IF foundNewTweets THEN 0
                                  ELSE IF Len(m.allTweets) = c.lastTweetCount THEN @ + 1
                                  ELSE 0,
                   !.lastTweetCount = Len(m.allTweets)]
    ELSE [c EXCEPT !.consecutiveEmptyScreenshots = @ + 1,
                   !.stuckCount = IF Len(c.allTweets) = c.lastTweetCount THEN @ + 1 ELSE @]

\* One pass of the rescan: if (retryExtraction.success && data?.tweets) merge;
\* then scroll down if still short, else the for loop ends.
RescanExtraction(c, res) ==
    LET m == IF res.success
             THEN Merge([allTweets |-> c.allTweets, seen |-> c.seen], res.tweets, c.target)
             ELSE [allTweets |-> c.allTweets, seen |-> c.seen]
        d == [c EXCEPT !.allTweets = m.allTweets, !.seen = m.seen,
                       !.rescanPasses = @ + 1] IN
    IF Len(d.allTweets) < d.target THEN [d EXCEPT !.pc = "rs_scroll"]
    ELSE RescanHead([d EXCEPT !.i = @ + 1])

\* A final extraction that is tried again when it finds nothing.
FinalExtractionRetry(c, res) ==
    IF res.success /\ Len(res.tweets) > 0
    THEN [c EXCEPT !.result = ToTweets(Slice(res.tweets, c.target)),
                   !.via = "final", !.pc = "cleanup_final"]
    ELSE IF c.finalExtractions < 2 THEN [c EXCEPT !.pc = "final_shot"]
    ELSE [c EXCEPT !.pc = "fb_snapshot"]

\* The single-shot final extraction: its tweets, cut to maxResults, are the
\* result; with no tweet the deterministic fallback is next.
FinalExtraction(c, res) ==
    IF res.success /\ Len(res.tweets) > 0
    THEN [c EXCEPT !.result = ToTweets(Slice(res.tweets, c.target)),
                   !.via = "final", !.pc = "cleanup_final"]
    ELSE [c EXCEPT !.pc = "fb_snapshot"]

\* What one iteration of the loop did, from the accumulator before (in c) and
\* after (in d) its outcome was recorded.
Observed(c, d) ==
    LET grew == Len(d.allTweets) > Len(c.allTweets) IN
    [d EXCEPT !.iterations = @ + 1,
              !.barren = (@ \/ ~grew),
              !.barrenRun = IF grew THEN 0 ELSE @ + 1]

\* What follows an extraction call that has resolved to res, the locals of
\* the call being c.
AfterExtract(c, res) ==
    CASE c.pc = "it_extract" -> AfterOutcome(Observed(c, RecordExtraction(c, res)))
      [] c.pc = "rs_extract" -> RescanExtraction(c, res)
      [] c.pc = "final_extract" ->
           FinalExtraction([c EXCEPT !.finalExtractions = @ + 1, !.answer = << >>], res)

\* await this.llm.extractTweetsFromScreenshot(screenshot, n)
Extract(s, res) ==
    /\ sess[s].pc \in {"it_extract", "rs_extract", "final_extract"}
    /\ SetSession(s, AfterExtract([sess[s] EXCEPT !.candidates = (@ \/ Len(res.tweets) > 0),
                                                  !.requested = 0], res))
    /\ UNCHANGED <<initialized, screenshotPaths, files, connected, scrollBudget, parser, monitor, worker>>

\* The same call, the answer it merges in the loop or the rescan kept on
\* record for the step that follows.
ExtractObserved(s, res) ==
    /\ sess[s].pc \in {"it_extract", "rs_extract", "final_extract"}
    /\ SetSession(s, AfterExtract([sess[s] EXCEPT !.candidates = (@ \/ Len(res.tweets) > 0),
                                                  !.requested = 0,
                                                  !.answer = <<res>>], res))
    /\ UNCHANGED <<initialized, screenshotPaths, files, connected, scrollBudget, parser, monitor, worker>>

\* el.tag === 'article' || el.attributes?.testid === 'tweet'
IsTweetElement(el) == el.tag = "article" \/ el.testid = "tweet"

\* extractTweetsFallback: the first min(tweetElements.length, maxResults)
\* tweet elements of the snapshot; [] when the snapshot throws.
FallbackTweets(elements, maxResults) ==
    LET tweetElements == SelectSeq(elements, IsTweetElement) IN
    [k \in 1..Max(0, Min(Len(tweetElements), maxResults)) |->
        [id |-> <<"fallback", k - 1>>, text |-> tweetElements[k].text,
         created_at |-> Iso(Now), author |-> Unknown]]

\* const snapshot = await this.browser.snapshot(), in extractTweetsFallback:
\* called after the final extraction found nothing, and from the catch block
\* (return await this.extractTweetsFallback(maxResults)).
Snapshot(s, r, elements) ==
    /\ sess[s].pc \in {"fb_snapshot", "catch_fb"}
    /\ Succeeds(r) => connected
    /\ LET c == [sess[s] EXCEPT !.issued = TRUE, !.failed = (@ \/ r = "fail")]
           tweets == IF r = "ok" THEN FallbackTweets(elements, c.target) ELSE << >> IN
       SetSession(s, IF c.pc = "fb_snapshot"
                     THEN [c EXCEPT !.result = tweets, !.via = "fallback", !.pc = "cleanup_fb"]
                     ELSE [c EXCEPT !.result = tweets, !.via = "error", !.pc = "done",
                                    !.outcome = "returned"])
    /\ UNCHANGED <<initialized, screenshotPaths, files, connected, scrollBudget, parser, monitor, worker>>

\* A cleanup after the loop that tries the final extraction whenever the
\* target was missed, not only when nothing was found.
AfterCleanupRetryShort(c) ==
    CASE c.pc = "cleanup1" ->
           IF Len(Slice(c.allTweets, c.target)) < c.target THEN [c EXCEPT !.pc = "final_shot"]
           ELSE [c EXCEPT !.result = ToTweets(Slice(Slice(c.allTweets, c.target), c.target)),
                          !.via = "loop", !.pc = "cleanup_end"]
      [] c.pc = "cleanup_final" -> [c EXCEPT !.pc = "delay"]
      [] c.pc = "cleanup_end" -> [c EXCEPT !.pc = "delay"]
      [] c.pc = "cleanup_fb" -> [c EXCEPT !.pc = "done", !.outcome = "returned"]
      [] c.pc = "cleanup_catch" -> [c EXCEPT !.pc = "catch_fb"]

\* Where a cleanupScreenshots() leads: after the loop, to the final
\* extraction when uniqueTweets is empty and to the mapping of uniqueTweets
\* otherwise; after the final extraction and at the end, to the delay before
\* the return; after the fallback, to its return; in the catch block, to the
\* fallback.
AfterCleanup(c) ==
    CASE c.pc = "cleanup1" ->
           IF Len(Slice(c.allTweets, c.target)) = 0 THEN [c EXCEPT !.pc = "final_shot"]
           ELSE [c EXCEPT !.result = ToTweets(Slice(Slice(c.allTweets, c.target), c.target)),
                          !.via = "loop", !.pc = "cleanup_end"]
      [] c.pc = "cleanup_final" -> [c EXCEPT !.pc = "delay"]
      [] c.pc = "cleanup_end" -> [c EXCEPT !.pc = "delay"]
      [] c.pc = "cleanup_fb" -> [c EXCEPT !.pc = "done", !.outcome = "returned"]
      [] c.pc = "cleanup_catch" -> [c EXCEPT !.pc = "catch_fb"]

\* cleanupScreenshots(): unlink every tracked path, this.screenshotPaths = [],
\* then browser.cleanupScreenshots() unlinks every twitter-screenshot-*.png of
\* the working directory.  Neither throws.
CleanupScreenshots(s) ==
    /\ sess[s].pc \in {"cleanup1", "cleanup_final", "cleanup_end", "cleanup_fb", "cleanup_catch"}
    /\ screenshotPaths' = {}
    /\ files' = {}
    /\ SetSession(s, AfterCleanup([sess[s] EXCEPT !.answer = << >>]))
    /\ UNCHANGED <<initialized, connected, scrollBudget, parser, monitor, worker>>

\* await this.delay(1000 + Math.random() * 2000); return tweets
Return(s) ==
    /\ sess[s].pc = "delay"
    /\ SetSession(s, [sess[s] EXCEPT !.pc = "done", !.outcome = "returned"])
    /\ UNCHANGED <<initialized, screenshotPaths, files, connected, scrollBudget, parser, monitor, worker>>

\* ------------------------------------------------------ checkBreakingNews

\* A JavaScript number that may be NaN (every comparison with NaN is false).
NaN == [nan |-> TRUE, val |-> 0]
Num(n) == [nan |-> FALSE, val |-> n]

\* Date.now() - new Date(tweet.created_at).getTime(): getTime() is the instant
\* of an ISO date and NaN for a text that is no date.
TweetAge(tweet) ==
    IF tweet.created_at.kind = "iso" THEN Num(Now - tweet.created_at.at) ELSE NaN

\* Math.round(tweetAge / 60000): to the nearest integer, a half rounded up.
AgeMinutes(age) ==
    IF age.nan THEN NaN ELSE Num((2 * age.val + MsPerMinute) \div (2 * MsPerMinute))

\* A classifier that checks every requested symbol.
ToCheckAll(symbols) == symbols

\* const toCheck = symbols.slice(0, 3)
ToCheck(symbols) == Slice(symbols, MaxSymbols)

\* tweet.text.toUpperCase().includes(`$${s}`) ||
\* tweet.text.toUpperCase().includes(` ${s} `)
Mentions(tweet, sym) ==
    \/ Includes(ToUpperCase(tweet.text), Concat(Str(<<"$">>), sym))
    \/ Includes(ToUpperCase(tweet.text), Concat(Concat(Str(<<" ">>), sym), Str(<<" ">>)))

\* toCheck.find(...): the position in toCheck of the first symbol the tweet
\* mentions, 0 when it mentions none.
MentionedSymbol(toCheck, tweet) ==
    LET hits == {k \in 1..Len(toCheck) : Mentions(tweet, toCheck[k])} IN
    IF hits = {} THEN 0 ELSE CHOOSE k \in hits : \A j \in hits : k <= j

\* tweet.author.toLowerCase().includes('firstsquawk') || ... 'deitaone' ||
\* ... 'newsquawk'
IsNewsAccount(tweet) ==
    \E a \in {Str(<<"f", "i", "r", "s", "t", "s", "q", "u", "a", "w", "k">>),
               Str(<<"d", "e", "i", "t", "a", "o", "n", "e">>),
               Str(<<"n", "e", "w", "s", "q", "u", "a", "w", "k">>)} :
        Includes(ToLowerCase(tweet.author), a)

\* if (tweetAge > MAX_NEWS_AGE_MS) continue
Skipped(tweet) == ~TweetAge(tweet).nan /\ TweetAge(tweet).val > MAX_NEWS_AGE_MS

\* is_breaking: tweetAge < BREAKING_THRESHOLD_MS
IsBreaking(age) == ~age.nan /\ age.val < BREAKING_THRESHOLD_MS

RECURSIVE ClassifyFrom(_, _, _)
\* The for loop of checkBreakingNews from tweet k on, and the results it
\* pushes; of is the position of the tweet an item was made from.
ClassifyFrom(toCheck, tweets, k) ==
    IF k > Len(tweets) THEN << >>
    ELSE LET tweet == tweets[k]
             m == MentionedSymbol(toCheck, tweet) IN
         IF ~Skipped(tweet) /\ m # 0 /\ IsNewsAccount(tweet)
         THEN << [symbol |-> toCheck[m],
                  headline |-> Substring(tweet.text, HeadlineLen),
                  author |-> tweet.author,
                  age_minutes |-> AgeMinutes(TweetAge(tweet)),
                  is_breaking |-> IsBreaking(TweetAge(tweet)),
                  of |-> k] >> \o ClassifyFrom(toCheck, tweets, k + 1)
         ELSE ClassifyFrom(toCheck, tweets, k + 1)

\* checkBreakingNews once searchTwitter(newsQuery, 5) has returned: the loop
\* over its tweets and return results.  (symbols is not empty: the handler
\* has refused an empty array.)
Classify(s) ==
    /\ sess[s].pc = "done"
    /\ sess[s].kind = "news"
    /\ sess[s].outcome = "returned"
    /\ ~sess[s].classified
    /\ SetSession(s, [sess[s] EXCEPT
                        !.news = ClassifyFrom(ToCheck(sess[s].symbols.items), sess[s].result, 1),
                        !.classified = TRUE])
    /\ UNCHANGED <<initialized, screenshotPaths, files, connected, scrollBudget, parser, monitor, worker>>

\* Chrome stops, or starts, answering on its debugging port.  During a call
\* every command may fail whatever the reason, so a change of reachability in
\* mid-call adds no behaviour: it is taken between calls.
ChromeToggle ==
    /\ \A s \in Sessions : sess[s].pc = "idle"
    /\ connected' = ~connected
    /\ UNCHANGED <<initialized, screenshotPaths, files, scrollBudget, parser, monitor, worker, sess>>

\* ------------------------------------------------------------ specifications

\* The requests of one client, served one after the other by one handler.
Solo == {1}

Next ==
    \/ \E s \in Solo, q \in QueryInputs, m \in MaxResultsInputs : PostSearch(s, q, m)
    \/ \E s \in Solo, y \in SymbolsInputs : PostBreakingNews(s, y)
    \/ \E s \in Solo : Respond(s)
    \/ \E s \in Solo : InitConnect(s)
    \/ \E s \in Solo, r \in CommandOutcomes, t \in BOOLEAN : InitTabs(s, r, t)
    \/ \E s \in Solo, r \in CommandOutcomes : InitSwitch(s, r)
    \/ \E s \in Solo, r \in CommandOutcomes, h \in BOOLEAN : InitUrl(s, r, h)
    \/ \E s \in Solo, r \in CommandOutcomes : InitOpen(s, r)
    \/ \E s \in Solo, r \in ScreenshotOutcomes : InitScreenshot(s, r)
    \/ \E s \in Solo : InitAuth(s)
    \/ \E s \in Solo, r \in CommandOutcomes : Open(s, r)
    \/ \E s \in Solo, r \in ScreenshotOutcomes : Screenshot(s, r)
    \/ \E s \in Solo, r \in ScreenshotOutcomes : LoopScreenshot(s, r)
    \/ \E s \in Solo, l \in BOOLEAN : Verify(s, l)
    \/ \E s \in Solo, r \in CommandOutcomes : Scroll(s, r)
    \/ \E s \in Solo, x \in ExtractionResults : Extract(s, x)
    \/ \E s \in Solo, r \in CommandOutcomes, e \in Snapshots : Snapshot(s, r, e)
    \/ \E s \in Solo : CleanupScreenshots(s)
    \/ \E s \in Solo : Return(s)
    \/ \E s \in Solo : Classify(s)
    \/ ChromeToggle

Spec == Init /\ [][Next]_vars

\* The same program with the iteration budget of the source.
InitFullBudget ==
    /\ scrollBudget = maxScrollAttempts
    /\ connected = TRUE
    /\ initialized \in BOOLEAN
    /\ screenshotPaths \in (IF initialized THEN {{}, {Startup}} ELSE {{}})
    /\ files = screenshotPaths
    /\ parser = NoCall
    /\ monitor = IdleMonitor
    /\ worker = IdleWorker
    /\ sess = [s \in Sessions |-> IdleSession]

SpecFullBudget == InitFullBudget /\ [][Next]_vars

\* Two requests in flight at once, with collaborators that never fail and an
\* oracle that sees the results loaded and one tweet: the handlers are async
\* functions of one process and interleave at their awaits.
OneTweet == [success |-> TRUE, tweets |-> << Candidate(TxtHead) >>]

NextConcurrent ==
    \/ \E s \in Sessions : PostSearch(s, JsString("$AAPL"), JsNumber(1))
    \/ \E s \in Sessions : Respond(s)
    \/ \E s \in Sessions : InitConnect(s)
    \/ \E s \in Sessions : InitTabs(s, "ok", FALSE)
    \/ \E s \in Sessions : InitOpen(s, "ok")
    \/ \E s \in Sessions : InitScreenshot(s, "ok")
    \/ \E s \in Sessions : InitAuth(s)
    \/ \E s \in Sessions : Open(s, "ok")
    \/ \E s \in Sessions : Screenshot(s, "ok")
    \/ \E s \in Sessions : LoopScreenshot(s, "ok")
    \/ \E s \in Sessions : Verify(s, TRUE)
    \/ \E s \in Sessions : Scroll(s, "ok")
    \/ \E s \in Sessions : Extract(s, OneTweet)
    \/ \E s \in Sessions : CleanupScreenshots(s)
    \/ \E s \in Sessions : Return(s)

SpecConcurrent == Init /\ [][NextConcurrent]_vars

\* One client asking for one or two tweets, or fifty, every behaviour of the
\* collaborators, and the oracle's answers kept on record.
NextObserved ==
    \/ \E s \in Solo, m \in {JsNumber(1), JsNumber(2), JsNumber(50)} :
           PostSearch(s, JsString("$AAPL"), m)
    \/ \E s \in Solo : Respond(s)
    \/ \E s \in Solo : InitConnect(s)
    \/ \E s \in Solo, r \in CommandOutcomes, t \in BOOLEAN : InitTabs(s, r, t)
    \/ \E s \in Solo, r \in CommandOutcomes : InitSwitch(s, r)
    \/ \E s \in Solo, r \in CommandOutcomes, h \in BOOLEAN : InitUrl(s, r, h)
    \/ \E s \in Solo, r \in CommandOutcomes : InitOpen(s, r)
    \/ \E s \in Solo, r \in ScreenshotOutcomes : InitScreenshot(s, r)
    \/ \E s \in Solo : InitAuth(s)
    \/ \E s \in Solo, r \in CommandOutcomes : Open(s, r)
    \/ \E s \in Solo, r \in ScreenshotOutcomes : Screenshot(s, r)
    \/ \E s \in Solo, r \in ScreenshotOutcomes : LoopScreenshot(s, r)
    \/ \E s \in Solo, l \in BOOLEAN : Verify(s, l)
    \/ \E s \in Solo, r \in CommandOutcomes : Scroll(s, r)
    \/ \E s \in Solo, x \in ExtractionResults : ExtractObserved(s, x)
    \/ \E s \in Solo, r \in CommandOutcomes : Snapshot(s, r, << >>)
    \/ \E s \in Solo : CleanupScreenshots(s)
    \/ \E s \in Solo : Return(s)

SpecObserved == Init /\ [][NextObserved]_vars

\* An oracle that never reports a candidate (it fails, or it answers an empty
\* list), with the iteration budget of the source; the browser commands
\* succeed or fail as they may.  Such a call never gets to the delay before
\* the return of tweets (agent.ts:375, 412).
NoCandidates == {ExtractionFailure, [success |-> TRUE, tweets |-> << >>]}

NextNoCandidates ==
    \/ \E s \in Solo, m \in {JsNumber(1), JsNumber(50)} : PostSearch(s, JsString("$AAPL"), m)
    \/ \E s \in Solo : Respond(s)
    \/ \E s \in Solo : InitConnect(s)
    \/ \E s \in Solo, r \in CommandOutcomes, t \in BOOLEAN : InitTabs(s, r, t)
    \/ \E s \in Solo, r \in CommandOutcomes : InitSwitch(s, r)
    \/ \E s \in Solo, r \in CommandOutcomes, h \in BOOLEAN : InitUrl(s, r, h)
    \/ \E s \in Solo, r \in CommandOutcomes : InitOpen(s, r)
    \/ \E s \in Solo, r \in ScreenshotOutcomes : InitScreenshot(s, r)
    \/ \E s \in Solo : InitAuth(s)
    \/ \E s \in Solo, r \in CommandOutcomes : Open(s, r)
    \/ \E s \in Solo, r \in ScreenshotOutcomes : Screenshot(s, r)
    \/ \E s \in Solo, r \in ScreenshotOutcomes : LoopScreenshot(s, r)
    \/ \E s \in Solo, l \in BOOLEAN : Verify(s, l)
    \/ \E s \in Solo, r \in CommandOutcomes : Scroll(s, r)
    \/ \E s \in Solo, x \in NoCandidates : Extract(s, x)
    \/ \E s \in Solo, r \in CommandOutcomes, e \in Snapshots : Snapshot(s, r, e)
    \/ \E s \in Solo : CleanupScreenshots(s)

SpecNoCandidates == InitFullBudget /\ [][NextNoCandidates]_vars

\* A feed of NewsTarget tweets with different texts, read by an oracle every
\* answer of which holds a tweet the call has not accepted yet; the browser
\* commands succeed.  The call is the searchTwitter(newsQuery, 5) of
\* checkBreakingNews.
FeedText(n) == << <<"d", MinKeyLen + n>> >>
Feed == {Candidate(FeedText(n)) : n \in 1..NewsTarget}
FeedAnswers == {[success |-> TRUE, tweets |-> b] : b \in SeqsUpTo(Feed, MaxBatch)}

\* newTweets > 0 for this answer (agent.ts:254-255).
Contributes(c, res) ==
    /\ res.success
    /\ Len(Merge([allTweets |-> c.allTweets, seen |-> c.seen], res.tweets, c.target).allTweets)
          > Len(c.allTweets)

\* An extraction of the loop whose answer adds a tweet.
ProductiveExtract(s, res) ==
    /\ sess[s].pc = "it_extract"
    /\ Contributes(sess[s], res)
    /\ Extract(s, res)

NextProductive ==
    \/ \E s \in Solo : PostBreakingNews(s, JsArray(<<Symbol.AAPL>>))
    \/ \E s \in Solo : Respond(s)
    \/ \E s \in Solo : InitConnect(s)
    \/ \E s \in Solo : InitTabs(s, "ok", FALSE)
    \/ \E s \in Solo : InitOpen(s, "ok")
    \/ \E s \in Solo : InitScreenshot(s, "ok")
    \/ \E s \in Solo : InitAuth(s)
    \/ \E s \in Solo : Open(s, "ok")
    \/ \E s \in Solo : Screenshot(s, "ok")
    \/ \E s \in Solo : LoopScreenshot(s, "ok")
    \/ \E s \in Solo, l \in BOOLEAN : Verify(s, l)
    \/ \E s \in Solo : Scroll(s, "ok")
    \/ \E s \in Solo, x \in FeedAnswers : ProductiveExtract(s, x)
    \/ \E s \in Solo : CleanupScreenshots(s)
    \/ \E s \in Solo : Return(s)
    \/ \E s \in Solo : Classify(s)

SpecProductive == InitFullBudget /\ [][NextProductive]_vars

\* A breaking-news check over a feed of five posts, the browser commands
\* succeeding: iteration after iteration the oracle reports the next post of
\* the feed.  The first post is any combination of a text (a cashtag of the
\* first symbol, a lower-case token of the third, a cashtag of the fourth, no
\* symbol), an author (two accounts of the allow-list, one with its @, and
\* none) and a timestamp (4, 10, 30, 35 and 40 minutes old, none, and a
\* relative one two hours old); each later post is a cashtag of the first
\* symbol from an allow-listed account, 4 or 35 minutes old.
Minutes(n) == n * MsPerMinute
Posts(n) ==
    LET cashtag == Concat(Str(<<"$">>), Symbol.AAPL)
        firstSquawk == Str(<<"F", "i", "r", "s", "t", "S", "q", "u", "a", "w", "k">>)
        atDeItaone == Str(<<"@", "D", "e", "I", "t", "a", "o", "n", "e">>) IN
    IF n = 1
    THEN [text : {Concat(cashtag, << <<" ", 1>>, <<"u", 8>> >>),
                  Concat(Str(<<"b", "u", "y", " ", "n", "v", "d", "a", " ">>), << <<"n", 5>> >>),
                  Concat(Concat(Str(<<"$">>), Symbol.MSFT), << <<" ", 1>>, <<"f", 8>> >>),
                  << <<"z", 12>> >>},
          author : {firstSquawk, atDeItaone, TxtNone},
          created_at : {Iso(Now - Minutes(m)) : m \in {4, 10, 30, 35, 40}}
                          \cup {NoTimestamp, Relative(Now - Minutes(120))}]
    ELSE [text : {Concat(cashtag, << <<"d", MinKeyLen + n>> >>)},
          author : {firstSquawk},
          created_at : {Iso(Now - Minutes(4)), Iso(Now - Minutes(35))}]

\* The extraction of the loop reports the next post of the feed.
NewsExtract(s, res) ==
    /\ sess[s].pc = "it_extract"
    /\ res.tweets[1] \in Posts(Len(sess[s].allTweets) + 1)
    /\ Extract(s, res)

NextNews ==
    \/ \E s \in Solo, y \in SymbolsInputs \ {NotAnArray, JsArray(<< >>)} :
          PostBreakingNews(s, y)
    \/ \E s \in Solo : Respond(s)
    \/ \E s \in Solo : InitConnect(s)
    \/ \E s \in Solo : InitTabs(s, "ok", FALSE)
    \/ \E s \in Solo : InitOpen(s, "ok")
    \/ \E s \in Solo : InitScreenshot(s, "ok")
    \/ \E s \in Solo : InitAuth(s)
    \/ \E s \in Solo : Open(s, "ok")
    \/ \E s \in Solo : Screenshot(s, "ok")
    \/ \E s \in Solo : LoopScreenshot(s, "ok")
    \/ \E s \in Solo, l \in BOOLEAN : Verify(s, l)
    \/ \E s \in Solo : Scroll(s, "ok")
    \/ \E s \in Solo, n \in 1..NewsTarget : \E c \in Posts(n) :
          NewsExtract(s, [success |-> TRUE, tweets |-> <<c>>])
    \/ \E s \in Solo : CleanupScreenshots(s)
    \/ \E s \in Solo : Return(s)
    \/ \E s \in Solo : Classify(s)

SpecNews == InitFullBudget /\ [][NextNews]_vars

\* ---------------------------------------------------- extractExplicitTickers
\* The texts of the feed parsers are sequences of characters.

IsUpper(c) == \E l \in Letters : l[1] = c
IsLetter(c) == \E l \in Letters : l[1] = c \/ l[2] = c
\* \w and \s of a regular expression
IsWordChar(c) ==
    IsLetter(c) \/ c \in {"0", "1", "2", "3", "4", "5", "6", "7", "8", "9"} \/ c = "_"
UpperSeq(q) == [k \in 1..Len(q) |-> UpperChar(q[k])]

RECURSIVE SpacesFrom(_, _)
\* \s*: the number of consecutive spaces of h from position i on.
SpacesFrom(h, i) ==
    IF i <= Len(h) /\ h[i] = " " THEN 1 + SpacesFrom(h, i + 1) ELSE 0

RECURSIVE LettersFrom(_, _)
\* [A-Z]* with the flag i: the number of consecutive letters from position i on.
LettersFrom(h, i) ==
    IF i <= Len(h) /\ IsLetter(h[i]) THEN 1 + LettersFrom(h, i + 1) ELSE 0

RECURSIVE UppersFrom(_, _)
\* [A-Z]*: the number of consecutive upper-case letters from position i on.
UppersFrom(h, i) ==
    IF i <= Len(h) /\ IsUpper(h[i]) THEN 1 + UppersFrom(h, i + 1) ELSE 0

\* (?:NYSE|NASDAQ|AMEX|ARCA)
Exchanges ==
    {<<"N", "Y", "S", "E">>, <<"N", "A", "S", "D", "A", "Q">>,
     <<"A", "M", "E", "X">>, <<"A", "R", "C", "A">>}

MinTickerLen == 1
MinCashtagLen == 2
MaxTickerLen == 5

NoMatch == [end |-> 0, group |-> << >>]

\* /\((?:NYSE|NASDAQ|AMEX|ARCA)\s*:\s*([A-Z]{1,5})\)/gi matched at position i
\* of h: where the match ends (the position after it) and its group 1.  With
\* the flag i the exchange and the letters match in either case.
ExchangeMatch(h, i) ==
    IF i > Len(h) \/ h[i] # "(" THEN NoMatch
    ELSE LET names == {x \in Exchanges :
                          /\ i + Len(x) <= Len(h)
                          /\ UpperSeq(SubSeq(h, i + 1, i + Len(x))) = x} IN
         IF names = {} THEN NoMatch
         ELSE LET x == CHOOSE y \in names : TRUE
                  colon == i + 1 + Len(x) + SpacesFrom(h, i + 1 + Len(x))
                  first == colon + 1 + SpacesFrom(h, colon + 1)
                  n == LettersFrom(h, first) IN
              IF /\ colon <= Len(h) /\ h[colon] = ":"
                 /\ n >= 1 /\ n <= MaxTickerLen
                 /\ first + n <= Len(h) /\ h[first + n] = ")"
              THEN [end |-> first + n + 1, group |-> SubSeq(h, first, first + n - 1)]
              ELSE NoMatch

\* /\$([A-Z]{1,5})\b/g matched at position i of h: the upper-case letters
\* after the $ are at most five and end at a word boundary.
CashtagMatch(h, i) ==
    IF i > Len(h) \/ h[i] # "$" THEN NoMatch
    ELSE LET n == UppersFrom(h, i + 1) IN
         IF /\ n >= 1 /\ n <= MaxTickerLen
            /\ (i + n + 1 > Len(h) \/ ~IsWordChar(h[i + n + 1]))
         THEN [end |-> i + n + 1, group |-> SubSeq(h, i + 1, i + n)]
         ELSE NoMatch

\* A set of tickers that keeps a ticker it already holds a second time.
AddAgain(tickers, t) == Append(tickers, t)

\* tickers.add(t): a Set keeps its elements in insertion order, once each.
Add(tickers, t) ==
    IF \E k \in 1..Len(tickers) : tickers[k] = t THEN tickers ELSE Append(tickers, t)

RECURSIVE ScanExchanges(_, _, _, _)
\* while ((m = nyseNasdaq.exec(text)) !== null) { ... } from position i on
ScanExchanges(h, i, tickers, blacklist) ==
    IF i > Len(h) THEN tickers
    ELSE LET m == ExchangeMatch(h, i)
             t == UpperSeq(m.group) IN
         IF m.end = 0 THEN ScanExchanges(h, i + 1, tickers, blacklist)
         ELSE IF Len(t) >= MinTickerLen /\ Len(t) <= MaxTickerLen /\ t \notin blacklist
         THEN ScanExchanges(h, m.end, Add(tickers, t), blacklist)
         ELSE ScanExchanges(h, m.end, tickers, blacklist)

RECURSIVE ScanCashtags(_, _, _, _)
\* while ((m = cashtag.exec(text)) !== null) { ... } from position i on
ScanCashtags(h, i, tickers, blacklist) ==
    IF i > Len(h) THEN tickers
    ELSE LET m == CashtagMatch(h, i)
             t == UpperSeq(m.group) IN
         IF m.end = 0 THEN ScanCashtags(h, i + 1, tickers, blacklist)
         ELSE IF Len(t) >= MinCashtagLen /\ Len(t) <= MaxTickerLen /\ t \notin blacklist
         THEN ScanCashtags(h, m.end, Add(tickers, t), blacklist)
         ELSE ScanCashtags(h, m.end, tickers, blacklist)

\* extractExplicitTickers(text, blacklist): Array.from(tickers)
ExtractExplicitTickersOf(text, blacklist) ==
    ScanCashtags(text, 1, ScanExchanges(text, 1, << >>, blacklist), blacklist)

\* The pieces the texts of the model are made of: exchange-style mentions
\* (one in lower case, one of a blacklisted word, one too long), cashtags (one
\* of the ticker of an exchange mention, one blacklisted, one too long, one of
\* a single letter, one glued to a letter) and pieces without a mention.
Segment ==
    [Nyse |-> <<"(", "N", "Y", "S", "E", ":", " ", "X", "Y", "Z", ")">>,
     NasdaqLower |-> <<"(", "n", "a", "s", "d", "a", "q", ":", "a", "b", "c", "d", ")">>,
     CashAapl |-> <<"$", "A", "A", "P", "L">>,
     CashXyz |-> <<"$", "X", "Y", "Z">>,
     NyseCeo |-> <<"(", "N", "Y", "S", "E", ":", " ", "C", "E", "O", ")">>,
     CashIpo |-> <<"$", "I", "P", "O", ".">>,
     CashLong |-> <<"$", "A", "B", "C", "D", "E", "F", "G">>,
     CashOne |-> <<"$", "A">>,
     NyseLong |-> <<"(", "N", "Y", "S", "E", ":", " ", "T", "O", "O", "L", "O", "N", "G", ")">>,
     CashGlued |-> <<"$", "A", "A", "P", "L", "x">>,
     Sentence |-> <<"N", "o", " ", "t", "i", "c", "k", "e", "r", "s", " ", "h", "e", "r", "e", ".">>,
     Note |-> <<"(", "s", "e", "e", " ", "n", "o", "t", "e", ")">>,
     Price |-> <<"$", "5">>]
PlainSegments == {Segment.Sentence, Segment.Note, Segment.Price}
Segments == {Segment[n] : n \in DOMAIN Segment}

\* The pieces of a text, a space between two of them.
RECURSIVE Join(_)
Join(parts) ==
    IF parts = << >> THEN << >>
    ELSE IF Len(parts) = 1 THEN parts[1]
    ELSE parts[1] \o <<" ">> \o Join(Tail(parts))

MaxParts == 3

\* The failed health checks in a row the model follows the monitor for.
MaxStreak == 5

\* The blacklist of the tests.
BLACKLIST ==
    {<<"C", "E", "O">>, <<"I", "P", "O">>, <<"S", "E", "C">>, <<"F", "D", "A">>,
     <<"U", "S", "D">>, <<"E", "T", "F">>}

\* A call of extractExplicitTickers returns.
ExtractExplicitTickers ==
    /\ ~parser.done
    /\ parser' = [parser EXCEPT !.tickers = ExtractExplicitTickersOf(parser.text, parser.blacklist),
                                !.done = TRUE]
    /\ UNCHANGED <<initialized, screenshotPaths, files, connected, scrollBudget, monitor, worker, sess>>

\* A call of extractExplicitTickers with a text of up to MaxParts pieces and
\* the blacklist of the tests or one of two tickers of the texts.
InitTickers ==
    /\ scrollBudget = IterBudget
    /\ connected = TRUE
    /\ initialized = FALSE
    /\ screenshotPaths = {}
    /\ files = {}
    /\ sess = [s \in Sessions |-> IdleSession]
    /\ monitor = IdleMonitor
    /\ worker = IdleWorker
    /\ parser \in {[parts |-> q, text |-> Join(q), blacklist |-> b, tickers |-> << >>,
                     done |-> FALSE] : q \in SeqsUpTo(Segments, MaxParts),
                                      b \in {BLACKLIST, {<<"X", "Y", "Z">>, <<"A", "B", "C", "D">>}}}

SpecTickers == InitTickers /\ [][ExtractExplicitTickers]_vars

\* One step of the handler s: the await it is at completes.
HandlerStep(s) ==
    \/ Respond(s)
    \/ InitConnect(s)
    \/ \E r \in CommandOutcomes, t \in BOOLEAN : InitTabs(s, r, t)
    \/ \E r \in CommandOutcomes : InitSwitch(s, r)
    \/ \E r \in CommandOutcomes, h \in BOOLEAN : InitUrl(s, r, h)
    \/ \E r \in CommandOutcomes : InitOpen(s, r)
    \/ \E r \in ScreenshotOutcomes : InitScreenshot(s, r)
    \/ InitAuth(s)
    \/ \E r \in CommandOutcomes : Open(s, r)
    \/ \E r \in ScreenshotOutcomes : Screenshot(s, r)
    \/ \E r \in ScreenshotOutcomes : LoopScreenshot(s, r)
    \/ \E l \in BOOLEAN : Verify(s, l)
    \/ \E r \in CommandOutcomes : Scroll(s, r)
    \/ \E x \in ExtractionResults : Extract(s, x)
    \/ \E r \in CommandOutcomes, e \in Snapshots : Snapshot(s, r, e)
    \/ CleanupScreenshots(s)
    \/ Return(s)

\* Every browser command and every oracle call comes back, with a result or
\* with a failure (execAsync and the fetch of the LLM settle), so a handler
\* that is at an await goes on.
SpecLive == Init /\ [][Next]_vars /\ \A s \in Solo : WF_vars(HandlerStep(s))

\* The same with the budget of the source and the oracle that makes the loop
\* longest, the one without candidates.
SpecLiveFullBudget ==
    InitFullBudget /\ [][NextNoCandidates]_vars /\ \A s \in Solo : WF_vars(HandlerStep(s))

\* ------------------------------------------------- scripts/health-monitor.js

\* const MAX_FAILURES = parseInt(process.env.MAX_FAILURES || '3', 10), and
\* MAX_FAILURES: '3' in the PM2 ecosystem file
MAX_FAILURES == 3

\* async function restartService(), up to its await of execAsync: it returns
\* at once when a restart is in progress, else it sets isRestarting and runs
\* pm2 restart mahoraga-worker.  An invocation that never looks at the flag:
RestartServiceNoFlag(m, k) == [m EXCEPT !.isRestarting = TRUE, !.check[k].pc = "pm2"]

RestartService(m, k) ==
    IF m.isRestarting
    THEN [m EXCEPT !.check[k].pc = "idle", !.check[k].skipped = TRUE]
    ELSE [m EXCEPT !.isRestarting = TRUE, !.check[k].pc = "pm2"]

\* A monitor that restarts one failed check early.
UnhealthyEarly(m, k) ==
    LET n == m.consecutiveFailures + 1
        c == [m EXCEPT !.consecutiveFailures = n, !.streak = @ + 1,
                       !.check[k].healthy = FALSE, !.check[k].at = n] IN
    IF n >= MAX_FAILURES - 1
    THEN IF c.discord THEN [c EXCEPT !.check[k].pc = "notify"] ELSE RestartService(c, k)
    ELSE [c EXCEPT !.check[k].pc = "idle"]

\* The else branch of runHealthCheck: consecutiveFailures++ and, if
\* (consecutiveFailures >= MAX_FAILURES), the notification when a webhook is
\* configured and then await restartService().
Unhealthy(m, k) ==
    LET n == m.consecutiveFailures + 1
        c == [m EXCEPT !.consecutiveFailures = n, !.streak = @ + 1,
                       !.check[k].healthy = FALSE, !.check[k].at = n] IN
    IF n >= MAX_FAILURES
    THEN IF c.discord THEN [c EXCEPT !.check[k].pc = "notify"] ELSE RestartService(c, k)
    ELSE [c EXCEPT !.check[k].pc = "idle"]

\* runHealthCheck() is called: at startup, or by setInterval, whether or not
\* an earlier invocation has finished.
RunHealthCheck(k) ==
    /\ monitor.check[k].pc = "idle"
    /\ monitor' = [monitor EXCEPT !.check[k] = [pc |-> "health", healthy |-> TRUE, at |-> 0,
                                                skipped |-> FALSE]]
    /\ UNCHANGED <<initialized, screenshotPaths, files, connected, scrollBudget, parser, worker, sess>>

\* const result = await checkHealth(): healthy on a 200 with a JSON body,
\* unhealthy on any other answer, an error or the timeout.
CheckHealth(k, healthy) ==
    /\ monitor.check[k].pc = "health"
    /\ healthy \/ monitor.consecutiveFailures < MaxStreak
    /\ monitor' = IF healthy
                  THEN [monitor EXCEPT !.consecutiveFailures = IF @ > 0 THEN 0 ELSE @,
                                       !.streak = 0,
                                       !.check[k].healthy = TRUE,
                                       !.check[k].pc = "status"]
                  ELSE Unhealthy(monitor, k)
    /\ UNCHANGED <<initialized, screenshotPaths, files, connected, scrollBudget, parser, worker, sess>>

\* const agentStatus = await checkAgentStatus();
\* if (!agentStatus.enabled && !agentStatus.error) await enableAgent()
CheckAgentStatus(k, enabled, error) ==
    /\ monitor.check[k].pc = "status"
    /\ monitor' = [monitor EXCEPT !.check[k].pc = IF ~enabled /\ ~error THEN "enable" ELSE "idle"]
    /\ UNCHANGED <<initialized, screenshotPaths, files, connected, scrollBudget, parser, worker, sess>>

\* const enableResult = await enableAgent(): logged, whatever it is.
EnableAgent(k) ==
    /\ monitor.check[k].pc = "enable"
    /\ monitor' = [monitor EXCEPT !.check[k].pc = "idle"]
    /\ UNCHANGED <<initialized, screenshotPaths, files, connected, scrollBudget, parser, worker, sess>>

\* await sendDiscordNotification(embed), which always resolves: before the
\* restart it is followed by restartService(); after the pm2 command by the
\* finally block, isRestarting = false.
SendDiscordNotification(k) ==
    /\ monitor.check[k].pc \in {"notify", "notified"}
    /\ monitor' = IF monitor.check[k].pc = "notify" THEN RestartService(monitor, k)
                  ELSE [monitor EXCEPT !.isRestarting = FALSE, !.check[k].pc = "idle"]
    /\ UNCHANGED <<initialized, screenshotPaths, files, connected, scrollBudget, parser, worker, sess>>

\* await execAsync('pm2 restart mahoraga-worker') returns (consecutiveFailures
\* = 0) or throws; then the notification when a webhook is configured, then
\* the finally block.
Pm2Restart(k, ok) ==
    /\ monitor.check[k].pc = "pm2"
    /\ LET c == IF ok THEN [monitor EXCEPT !.consecutiveFailures = 0, !.streak = 0]
                ELSE monitor IN
       monitor' = IF c.discord THEN [c EXCEPT !.check[k].pc = "notified"]
                  ELSE [c EXCEPT !.isRestarting = FALSE, !.check[k].pc = "idle"]
    /\ UNCHANGED <<initialized, screenshotPaths, files, connected, scrollBudget, parser, worker, sess>>

\* The paths of the requests: the two of ASSETS_TO_CACHE, two API endpoints
\* (one under /mahoraga/, one at the root), a script whose name starts like
\* api, and another script.
Url ==
    [Root |-> Str(<<"/", "m", "a", "h", "o", "r", "a", "g", "a", "/">>),
     Index |-> Str(<<"/", "m", "a", "h", "o", "r", "a", "g", "a", "/", "i", "n", "d", "e", "x", ".", "h", "t", "m", "l">>),
     ApiStatus |-> Str(<<"/", "m", "a", "h", "o", "r", "a", "g", "a", "/", "a", "p", "i", "/", "s", "t", "a", "t", "u", "s">>),
     ApiLogs |-> Str(<<"/", "a", "p", "i", "/", "l", "o", "g", "s">>),
     Apiary |-> Str(<<"/", "m", "a", "h", "o", "r", "a", "g", "a", "/", "a", "p", "i", "a", "r", "y", ".", "j", "s">>),
     App |-> Str(<<"/", "m", "a", "h", "o", "r", "a", "g", "a", "/", "a", "p", "p", ".", "j", "s">>)]

\* The health monitor and the service worker run apart from the agent: the
\* monitor with or without a webhook, the worker with the cache its install
\* filled (cache.addAll adds all of ASSETS_TO_CACHE or nothing).
InitAside ==
    /\ scrollBudget = IterBudget
    /\ connected = TRUE
    /\ initialized = FALSE
    /\ screenshotPaths = {}
    /\ files = {}
    /\ sess = [s \in Sessions |-> IdleSession]
    /\ parser = NoCall
    /\ monitor \in {[IdleMonitor EXCEPT !.discord = d] : d \in BOOLEAN}
    /\ worker \in {[IdleWorker EXCEPT !.cache = c] : c \in {{}, {Url.Root, Url.Index}}}

NextMonitor ==
    \/ \E k \in DOMAIN monitor.check : RunHealthCheck(k)
    \/ \E k \in DOMAIN monitor.check, h \in BOOLEAN : CheckHealth(k, h)
    \/ \E k \in DOMAIN monitor.check, e \in BOOLEAN, x \in BOOLEAN : CheckAgentStatus(k, e, x)
    \/ \E k \in DOMAIN monitor.check : EnableAgent(k)
    \/ \E k \in DOMAIN monitor.check : SendDiscordNotification(k)
    \/ \E k \in DOMAIN monitor.check, ok \in BOOLEAN : Pm2Restart(k, ok)

SpecMonitor == InitAside /\ [][NextMonitor]_vars

\* ------------------------------------------- service worker: the fetch event

\* A worker that knows the API by its /mahoraga/ prefix only.
IsApiRequestPrefixed(path) == Includes(path, Str(<<"/", "m", "a", "h", "o", "r", "a", "g", "a", "/", "a", "p", "i", "/">>))

\* const isApiRequest = url.pathname.includes('/api/') ||
\*                      url.pathname.includes('/mahoraga/api/')
IsApiRequest(path) ==
    Includes(path, Str(<<"/", "a", "p", "i", "/">>)) \/ Includes(path, Str(<<"/", "m", "a", "h", "o", "r", "a", "g", "a", "/", "a", "p", "i", "/">>))

\* self.addEventListener('fetch', ...) up to its first promise: a request that
\* is not a GET or not of the worker's origin is left to the browser
\* (respondWith is not called); an API request goes to fetch(), any other to
\* caches.match().
Fetch(req) ==
    /\ worker.event.pc \in {"none", "done"}
    /\ worker' = [worker EXCEPT !.event =
                    IF req.method # "GET" \/ ~req.sameOrigin
                    THEN [pc |-> "done", request |-> req, answer |-> "browser"]
                    ELSE IF IsApiRequest(req.path)
                    THEN [pc |-> "api_fetch", request |-> req, answer |-> "none"]
                    ELSE [pc |-> "match", request |-> req, answer |-> "none"]]
    /\ UNCHANGED <<initialized, screenshotPaths, files, connected, scrollBudget, parser, monitor, sess>>

\* caches.match(event.request).then(...): the cached response when there is
\* one, else fetch().
CacheMatch ==
    /\ worker.event.pc = "match"
    /\ worker' = IF worker.event.request.path \in worker.cache
                 THEN [worker EXCEPT !.event.pc = "done", !.event.answer = "cache"]
                 ELSE [worker EXCEPT !.event.pc = "fetch"]
    /\ UNCHANGED <<initialized, screenshotPaths, files, connected, scrollBudget, parser, monitor, sess>>

\* fetch(event.request) settles.  For an API request the response is passed
\* on, and a rejection becomes the 503 JSON response.  For another request a
\* 200 of type basic is passed on and a cache.put of it is started, any other
\* response is passed on, and a rejection is answered by the cached
\* /mahoraga/index.html for a document (undefined when it is not cached) and
\* by undefined for anything else.
NetworkFetch(r) ==
    /\ worker.event.pc \in {"api_fetch", "fetch"}
    /\ LET e == worker.event
           done == [worker EXCEPT !.event.pc = "done"] IN
       worker' = IF e.pc = "api_fetch"
                 THEN [done EXCEPT !.event.answer = IF r = "rejected" THEN "503" ELSE "network"]
                 ELSE IF r = "rejected"
                 THEN [done EXCEPT !.event.answer =
                          IF e.request.document /\ Url.Index \in worker.cache THEN "cache"
                          ELSE "undefined"]
                 ELSE IF r = "ok"
                 THEN [done EXCEPT !.event.answer = "network",
                                   !.pending = @ \cup {e.request.path}]
                 ELSE [done EXCEPT !.event.answer = "network"]
    /\ UNCHANGED <<initialized, screenshotPaths, files, connected, scrollBudget, parser, monitor, sess>>

\* caches.open(CACHE_NAME).then((cache) => { cache.put(event.request,
\* responseToCache); }): not awaited by the handler, done some time later.
CachePut(u) ==
    /\ u \in worker.pending
    /\ worker' = [worker EXCEPT !.cache = @ \cup {u}, !.pending = @ \ {u}]
    /\ UNCHANGED <<initialized, screenshotPaths, files, connected, scrollBudget, parser, monitor, sess>>

NextWorker ==
    \/ \E m \in {"GET", "POST"}, o \in BOOLEAN, d \in BOOLEAN :
          \E u \in {Url[f] : f \in DOMAIN Url} :
             Fetch([method |-> m, sameOrigin |-> o, path |-> u, document |-> d])
    \/ CacheMatch
    \/ \E r \in {"ok", "not_ok", "opaque", "rejected"} : NetworkFetch(r)
    \/ \E u \in worker.pending : CachePut(u)

SpecWorker == InitAside /\ [][NextWorker]_vars

\* ---------------------------------------------------------------- properties

InFlight(s) == sess[s].pc \notin {"idle", "done"}
Returned(s) == sess[s].pc = "done" /\ sess[s].outcome = "returned"
ValidTarget(s) == sess[s].target \in MinMaxResults..MaxMaxResults
Exhausted(s) == sess[s].scrollAttempts >= scrollBudget
CleanupPcs == {"cleanup1", "cleanup_final", "cleanup_end", "cleanup_fb", "cleanup_catch"}

\* C1: for every targetCount in 1..50 the accumulator never holds more than
\* targetCount items, and the sequence a call returns (from the loop, the
\* final extraction, the fallback or the error path) is never longer.
C1_BoundedByTarget ==
    \A s \in Sessions :
        ValidTarget(s) =>
            /\ Len(sess[s].allTweets) <= sess[s].target
            /\ Len(sess[s].result) <= sess[s].target

\* A call returned a full accumulator from the extraction loop.
C1_Witness ==
    \E s \in Sessions :
        /\ Returned(s) /\ sess[s].via = "loop" /\ sess[s].target = 2
        /\ Len(sess[s].result) = 2 /\ Len(sess[s].allTweets) = 2

\* C2: for every targetCount in 1..50 the items a call returns have pairwise
\* distinct dedup keys, whichever phase produced them.
C2_DistinctKeys ==
    \A s \in Sessions :
        Returned(s) /\ ValidTarget(s) =>
            \A j, k \in 1..Len(sess[s].result) :
                j # k => DedupKey(sess[s].result[j]) # DedupKey(sess[s].result[k])

C4_RaisesOnlyUnreachable ==
    \A s \in Sessions :
        sess[s].outcome = "raised" => sess[s].raiseCause = "unreachable"

\* C5: a call that starts while the browser is unreachable raises, and issues
\* no navigation, scroll, screenshot, snapshot or oracle call.
C5_UnreachableNeverStarts ==
    \A s \in Sessions :
        sess[s].pc = "done" /\ ~sess[s].connAtStart =>
            sess[s].outcome = "raised" /\ ~sess[s].issued

\* C6: of two calls in flight, one issues no browser or oracle call before
\* the other has returned.
C6_Serialized ==
    \A s, t \in Sessions :
        s # t => ~(InFlight(s) /\ sess[s].issued /\ InFlight(t) /\ sess[t].issued)

\* C7: a screenshot file, or tracked path, of a call in flight is never removed
\* by the cleanup of another call (a call removes its own only in a cleanup).
C7_OwnArtifactsOnly ==
    [][\A t \in Sessions :
          InFlight(t) /\ sess[t].pc \notin CleanupPcs =>
              /\ t \in files => t \in files'
              /\ t \in screenshotPaths => t \in screenshotPaths']_vars

\* C8: a request is served by a harvest only if its maxResults is a number in
\* 1..50 (search) and its symbols a non-empty array (breaking news).
C8_FailClosed ==
    \A s \in Sessions :
        /\ sess[s].kind = "search" =>
              /\ sess[s].maxResults.type = "number"
              /\ sess[s].maxResults.num \in MinMaxResults..MaxMaxResults
        /\ sess[s].kind = "news" =>
              sess[s].symbols.isArray /\ Len(sess[s].symbols.items) > 0

\* C9: when the loop has exhausted its budget short of the target, between one
\* and three rescan passes have run by the time the fallback decision is taken.
C9_RescanOnExhaustion ==
    \A s \in Sessions :
        /\ sess[s].pc = "cleanup1"
        /\ Exhausted(s)
        /\ Len(sess[s].allTweets) < sess[s].target
        => sess[s].rescanPasses \in 1..RescanRetries

\* C10: a call whose budget ran out after k accepted items, 0 < k < target,
\* and none of whose collaborator calls threw, returns those k items in the
\* order of their acceptance.
C10_PartialResult ==
    \A s \in Sessions :
        /\ sess[s].pc = "done"
        /\ Exhausted(s)
        /\ Len(sess[s].allTweets) > 0
        /\ Len(sess[s].allTweets) < sess[s].target
        /\ ~sess[s].failed
        => /\ sess[s].outcome = "returned"
           /\ sess[s].result = ToTweets(sess[s].allTweets)

\* The budget ran out with one item of two, and the call returned.
C10_Witness ==
    \E s \in Sessions :
        /\ Returned(s) /\ Exhausted(s) /\ ~sess[s].failed
        /\ sess[s].target = 2 /\ Len(sess[s].allTweets) = 1

IsPrefix(p, q) == Len(p) <= Len(q) /\ SubSeq(q, 1, Len(p)) = p

DistinctKeys(q) ==
    \A j, k \in 1..Len(q) : j # k => DedupKey(q[j]) # DedupKey(q[k])

\* C11: candidates with the same dedup key collapse to one item of the
\* accumulator and the first one encountered is kept.  Within a call the
\* accumulator only grows at its end (a stored item is never replaced or
\* modified); after an oracle answer is merged its keys are pairwise distinct,
\* every item added is the first candidate of the answer with its key, and
\* (short of the target) every substantial key of the answer is in it.
C11_FirstOccurrenceKept ==
    [][\A s \in Sessions :
          /\ sess[s].pc # "idle" /\ sess'[s].pc # "idle" =>
                 IsPrefix(sess[s].allTweets, sess'[s].allTweets)
          /\ sess[s].pc \in {"it_extract", "rs_extract"} /\ sess'[s].answer # << >> =>
                 LET old == sess[s].allTweets
                     new == sess'[s].allTweets
                     offered == sess'[s].answer[1].tweets IN
                 /\ DistinctKeys(new)
                 /\ \A j \in (Len(old) + 1)..Len(new) :
                        /\ \A i \in 1..Len(old) : DedupKey(old[i]) # DedupKey(new[j])
                        /\ \E k \in 1..Len(offered) :
                               /\ new[j] = offered[k]
                               /\ \A h \in 1..(k - 1) : DedupKey(offered[h]) # DedupKey(offered[k])
                 /\ Len(new) < sess[s].target =>
                        \A k \in 1..Len(offered) :
                            KeySubstantial(DedupKey(offered[k])) =>
                                \E j \in 1..Len(new) : DedupKey(new[j]) = DedupKey(offered[k])]_vars

\* One answer offered two different texts with the same key to a call short
\* of its target: the first is the only one in the accumulator.
C11_Witness ==
    \E s \in Sessions :
        /\ sess[s].answer = << [success |-> TRUE,
                                tweets |-> << Candidate(TxtHead), Candidate(TxtHeadPadded) >>] >>
        /\ sess[s].allTweets = << Candidate(TxtHead) >>
        /\ sess[s].target = 2

\* C12: an extraction call of the loop that fails (LLM error, unparseable
\* output) is an iteration with no candidate: the accumulator is unchanged,
\* consecutiveEmptyScreenshots is one more, the call neither ends nor takes
\* the catch block, and what follows is the scroll of the iteration (after the
\* aggressive scroll when its threshold is reached); when that scroll succeeds
\* scrollAttempts is one more and the next iteration starts if budget remains.
C12_FailedExtractionIsEmptyIteration ==
    [][\A s \in Sessions :
          /\ sess[s].pc = "it_extract" /\ sess'[s].answer = <<ExtractionFailure>> =>
                 /\ sess'[s].allTweets = sess[s].allTweets
                 /\ sess'[s].consecutiveEmptyScreenshots = sess[s].consecutiveEmptyScreenshots + 1
                 /\ sess'[s].outcome = "none" /\ sess'[s].failed = sess[s].failed
                 /\ sess'[s].pc \in {"it_scroll", "it_aggr"}
          /\ sess[s].pc = "it_aggr" /\ sess'[s].pc \notin {"it_aggr", "cleanup_catch"} =>
                 sess'[s].pc = "it_scroll"
          /\ sess[s].pc = "it_scroll" /\ sess'[s].pc \notin {"it_scroll", "cleanup_catch"} =>
                 /\ sess'[s].scrollAttempts = sess[s].scrollAttempts + 1
                 /\ sess'[s].pc = IF sess'[s].scrollAttempts < scrollBudget
                                  THEN "it_shot" ELSE "cleanup1"]_vars

\* The second extraction of a call failed like the first: two empty
\* iterations are counted and the scroll to the third is next.
C12_Witness ==
    \E s \in Sessions :
        /\ sess[s].answer = <<ExtractionFailure>> /\ sess[s].pc = "it_scroll"
        /\ sess[s].scrollAttempts = 1 /\ sess[s].consecutiveEmptyScreenshots = 2
        /\ ~sess[s].failed /\ ~sess[s].candidates

LoopPcs == {"it_shot", "it_extract", "it_aggr", "it_scroll"}
AfterLoopPcs == {"cleanup1", "cleanup_end", "delay", "done"}

\* C14: when every iteration of the loop adds at least one new item (for
\* targetCount = 5: answers adding 2, 2 and 1), the loop is left in the very
\* iteration that brings the accumulator to targetCount, not before and not
\* after, and the aggressive scroll is never done: inside the loop the
\* accumulator is short of the target and both counters are 0 whenever the
\* threshold is tested; after it the accumulator holds targetCount items
\* gathered in at most targetCount and at least targetCount / MaxBatch
\* iterations, one scroll between two iterations.
C14_ConvergesWithoutRecovery ==
    \A s \in Sessions :
        sess[s].iterations > 0 /\ ~sess[s].barren =>
            /\ sess[s].recoveries = 0 /\ sess[s].pc # "it_aggr"
            /\ sess[s].stuckCount = 0 /\ sess[s].consecutiveEmptyScreenshots = 0
            /\ sess[s].pc \in LoopPcs => Len(sess[s].allTweets) < sess[s].target
            /\ sess[s].pc \in AfterLoopPcs =>
                   /\ Len(sess[s].allTweets) = sess[s].target
                   /\ sess[s].iterations <= sess[s].target
                   /\ sess[s].iterations * MaxBatch >= sess[s].target
                   /\ sess[s].scrollAttempts = sess[s].iterations - 1
                   /\ sess[s].rescanPasses = 0 /\ sess[s].finalExtractions = 0
            /\ sess[s].pc \in LoopPcs \cup AfterLoopPcs

\* targetCount = 5 was reached in exactly 3 iterations (with answers of two
\* tweets at most: 2, 2 and 1 new items in some order) and the call returned
\* the five.
C14_Witness ==
    \E s \in Sessions :
        /\ Returned(s) /\ sess[s].via = "loop" /\ sess[s].target = NewsTarget
        /\ sess[s].iterations = 3 /\ Len(sess[s].result) = NewsTarget
        /\ sess[s].recoveries = 0 /\ ~sess[s].barren

ThresholdReached(s) ==
    sess[s].stuckCount >= StuckThreshold \/ sess[s].consecutiveEmptyScreenshots >= maxConsecutiveEmpty

\* C15: the aggressive scroll is done in an iteration exactly when, its outcome
\* recorded, stuckCount >= 3 or the consecutive-empty count >= 5.  Counting
\* from the last growth or the last aggressive scroll, it is done in the third
\* iteration in a row that adds no item, never sooner and never later, once
\* for the three; when the aggressive scroll has succeeded both counters are 0.
C15_RecoveryAtThreshold ==
    /\ [](\A s \in Sessions :
             /\ sess[s].pc = "it_aggr" => ThresholdReached(s) /\ sess[s].barrenRun = 3
             /\ sess[s].pc = "it_scroll" => ~ThresholdReached(s) /\ sess[s].barrenRun < 3
             /\ sess[s].pc \in {"it_shot", "it_extract"} =>
                    ~ThresholdReached(s) /\ sess[s].barrenRun < 3)
    /\ [][\A s \in Sessions :
             /\ sess[s].pc \in {"it_shot", "it_extract"} /\ sess'[s].pc = "it_aggr" =>
                    sess'[s].barrenRun = sess[s].barrenRun + 1
             /\ sess[s].pc = "it_aggr" /\ sess'[s].pc \notin {"it_aggr", "cleanup_catch"} =>
                    /\ sess'[s].pc = "it_scroll"
                    /\ sess'[s].stuckCount = 0 /\ sess'[s].consecutiveEmptyScreenshots = 0
                    /\ sess'[s].recoveries = sess[s].recoveries + 1
             /\ sess[s].pc # "it_aggr" /\ sess[s].pc # "idle" /\ sess'[s].pc # "idle" =>
                    sess'[s].recoveries = sess[s].recoveries]_vars

\* The first three iterations of a call added nothing: the aggressive scroll
\* was done once, in the third, and the counters are back to 0.
C15_Witness ==
    \E s \in Sessions :
        /\ sess[s].pc = "it_scroll" /\ sess[s].iterations = 3 /\ sess[s].recoveries = 1
        /\ Len(sess[s].allTweets) = 0
        /\ sess[s].stuckCount = 0 /\ sess[s].consecutiveEmptyScreenshots = 0

C17_FallbackOnlyWhenEmpty ==
    \A s \in Sessions :
        sess[s].pc \in {"fb_snapshot", "catch_fb"} \/ sess[s].via \in {"fallback", "error"} =>
            Len(sess[s].allTweets) = 0

\* C18: from the moment the accumulator holds targetCount items the call issues
\* no screenshot, extraction, scroll or snapshot: it is at a cleanup or at the
\* delay before its return, it has not scrolled since the iteration that
\* reached the target, and it returns the accumulator, the rescan, the final
\* extraction and the fallback not run.
C18_ExitAtTarget ==
    \A s \in Sessions :
        sess[s].target >= 1 /\ Len(sess[s].allTweets) >= sess[s].target =>
            /\ sess[s].pc \in {"cleanup1", "cleanup_end", "delay", "done"}
            /\ sess[s].scrollAttempts = sess[s].iterations - 1
            /\ sess[s].rescanPasses = 0 /\ sess[s].finalExtractions = 0
            /\ sess[s].via \in {"none", "loop"}
            /\ sess[s].pc = "done" =>
                   /\ sess[s].outcome = "returned" /\ sess[s].via = "loop"
                   /\ sess[s].result = ToTweets(sess[s].allTweets)

\* The first answer held both tweets of a target of two: the call returned
\* them after one iteration and no scroll of the loop.
C18_Witness ==
    \E s \in Sessions :
        /\ Returned(s) /\ sess[s].target = 2 /\ Len(sess[s].allTweets) = 2
        /\ sess[s].iterations = 1 /\ sess[s].scrollAttempts = 0

InitPcs == {"init_connect", "init_tabs", "init_switch", "init_url", "init_open",
            "init_open_catch", "init_shot", "init_auth"}

\* C19: with collaborators that always come back, every call ends, and once
\* it is in the try block of searchTwitter it ends by returning (only init()
\* can make it raise); the loop runs at most its budget of iterations, and the
\* verify polls, the prefetch and top scrolls, the rescan passes and the final
\* extraction are bounded.
C19_Terminates ==
    /\ [](\A s \in Sessions :
             /\ sess[s].iterations <= scrollBudget /\ sess[s].scrollAttempts <= scrollBudget
             /\ sess[s].polls <= maxVerifyAttempts
             /\ sess[s].i < Max(ScrollCount(sess[s].target), TopScrolls)
             /\ sess[s].rescanPasses <= RescanRetries
             /\ sess[s].finalExtractions <= 1)
    /\ [][\A s \in Sessions :
             sess'[s].pc = "done" /\ sess[s].pc # "done" /\ sess[s].pc \notin InitPcs =>
                 sess'[s].outcome = "returned"]_vars
    /\ \A s \in Solo : InFlight(s) ~> sess[s].pc = "done"

\* A call ran its whole budget of iterations and returned.
C19_Witness ==
    \E s \in Sessions :
        Returned(s) /\ sess[s].iterations = scrollBudget /\ sess[s].scrollAttempts = scrollBudget

\* C20: the verify loop polls verifySearchResults at most 8 times, and the
\* prefetch scrolls follow whether a poll saw the results loaded or not: the
\* answer to a poll never ends the call nor takes it to the catch block, and
\* the eighth poll is followed by the prefetch whatever it answers.
C20_VerifyBestEffort ==
    /\ [](\A s \in Sessions :
             /\ sess[s].polls <= maxVerifyAttempts
             /\ sess[s].pc \in {"verify", "vshot"} => sess[s].polls < maxVerifyAttempts)
    /\ [][\A s \in Sessions :
             sess[s].pc = "verify" /\ sess'[s].pc # "verify" =>
                 /\ sess'[s].polls = sess[s].polls + 1
                 /\ sess'[s].pc \in {"prefetch", "vshot"}
                 /\ sess'[s].polls = maxVerifyAttempts => sess'[s].pc = "prefetch"
                 /\ sess'[s].confirmed => sess'[s].pc = "prefetch"
                 /\ sess'[s].outcome = "none" /\ sess'[s].failed = sess[s].failed]_vars

\* Eight polls, none of which saw the results loaded, and the call is at its
\* prefetch scrolls.
C20_Witness ==
    \E s \in Sessions :
        sess[s].pc = "prefetch" /\ sess[s].polls = maxVerifyAttempts /\ ~sess[s].confirmed

\* A handler whose checkBreakingNews has run its loop.
Classified(s) == sess[s].pc = "done" /\ sess[s].classified

\* The symbols checkBreakingNews may report for the request of handler s: the
\* first three of the request.
FirstThree(s) ==
    {sess[s].symbols.items[k] : k \in 1..Min(3, Len(sess[s].symbols.items))}

\* C21: checkBreakingNews considers only the first 3 requested symbols and
\* runs one harvest with targetCount = 5: a breaking-news call runs
\* searchTwitter with maxResults = 5 and, once that call is over, does not
\* enter it again; every emitted item carries one of the first three symbols,
\* at most 5 items are emitted, and the emitted items come from distinct
\* harvested items (each harvested item yields at most one).
C21_FirstThreeOneHarvest ==
    /\ [](\A s \in Sessions :
            /\ (sess[s].kind = "news" /\ sess[s].pc # "idle") => sess[s].target = 5
            /\ Classified(s) =>
                 LET news == sess[s].news IN
                 /\ Len(news) <= 5
                 /\ \A k \in 1..Len(news) :
                      /\ news[k].symbol \in FirstThree(s)
                      /\ news[k].of \in 1..Len(sess[s].result)
                 /\ \A j, k \in 1..Len(news) : j # k => news[j].of # news[k].of)
    /\ [][\A s \in Sessions :
            (sess[s].kind = "news" /\ sess[s].pc = "done")
                => sess'[s].pc \in {"done", "idle"}]_vars

\* Four symbols were requested, the harvest returned five items and each of
\* them was emitted, the first for the third symbol.
C21_Witness ==
    \E s \in Sessions :
        /\ Classified(s)
        /\ Len(sess[s].symbols.items) = 4
        /\ Len(sess[s].result) = 5
        /\ Len(sess[s].news) = 5
        /\ sess[s].news[1].symbol = Symbol.NVDA

\* The age of a harvested item: the time since the instant its timestamp
\* stands for.
ItemAge(tweet) == Now - tweet.created_at.at

\* The harvested item k of handler s was emitted, and the item emitted for it.
Emitted(s, k) == \E j \in 1..Len(sess[s].news) : sess[s].news[j].of = k
EmittedItem(s, k) ==
    sess[s].news[CHOOSE j \in 1..Len(sess[s].news) : sess[s].news[j].of = k]

\* C22: for every harvested item handed to the classifier: it is emitted iff
\* its age is at most 30 minutes and its text mentions one of the checked
\* symbols and its author matches an allow-listed account; an item older than
\* 30 minutes is never emitted; an emitted item has is_breaking iff its age is
\* strictly less than 10 minutes.
C22_EmittedIffFreshListedMention ==
    \A s \in Sessions :
        Classified(s) =>
            \A k \in 1..Len(sess[s].result) :
                LET tweet == sess[s].result[k] IN
                /\ Emitted(s, k) <=>
                      /\ ItemAge(tweet) <= Minutes(30)
                      /\ \E sym \in FirstThree(s) : Mentions(tweet, sym)
                      /\ IsNewsAccount(tweet)
                /\ ItemAge(tweet) > Minutes(30) => ~Emitted(s, k)
                /\ Emitted(s, k) =>
                      (EmittedItem(s, k).is_breaking <=> ItemAge(tweet) < Minutes(10))

\* C23: extractExplicitTickers never returns a ticker of the blacklist and
\* never returns the same ticker twice, whatever mix of exchange-style
\* mentions and cashtags the text holds; a text with no such mention yields
\* the empty list.
C23_NoBlacklistedNoDuplicate ==
    parser.done =>
        /\ \A k \in 1..Len(parser.tickers) : parser.tickers[k] \notin parser.blacklist
        /\ \A j, k \in 1..Len(parser.tickers) : j # k => parser.tickers[j] # parser.tickers[k]
        /\ (\A k \in 1..Len(parser.parts) : parser.parts[k] \in PlainSegments)
              => parser.tickers = << >>

\* (NYSE: XYZ), the cashtag $XYZ and the blacklisted (NYSE: CEO) in one text:
\* XYZ is returned once and CEO is not.
C23_Witness ==
    /\ parser.done
    /\ parser.parts = <<Segment.Nyse, Segment.CashXyz, Segment.NyseCeo>>
    /\ parser.blacklist = BLACKLIST
    /\ parser.tickers = << <<"X", "Y", "Z">> >>

\* C24: in every extraction iteration the number of items requested from the
\* oracle is 3 times the remaining target, 3 * (targetCount - items already
\* accumulated).
C24_RequestsThriceRemaining ==
    \A s \in Sessions :
        sess[s].pc = "it_extract" =>
            sess[s].requested = 3 * (sess[s].target - Len(sess[s].allTweets))

\* The step is the extraction of an iteration of handler s, answered by res.
IterationAnswered(s, res) == sess[s].pc = "it_extract" /\ sess'[s].answer = <<res>>

\* C25: the consecutive-empty count is incremented in an iteration only when
\* the oracle call of that iteration failed or yielded zero candidates; an
\* iteration whose answer holds at least one candidate, all of them
\* duplicates, does not increment it.
C25_EmptyCountsOnlyNoCandidates ==
    [][\A s \in Sessions : \A res \in ExtractionResults :
          IterationAnswered(s, res) =>
              /\ sess'[s].consecutiveEmptyScreenshots > sess[s].consecutiveEmptyScreenshots
                    => (~res.success \/ Len(res.tweets) = 0)
              /\ (res.success /\ Len(res.tweets) > 0
                      /\ \A k \in 1..Len(res.tweets) : DedupKey(res.tweets[k]) \in sess[s].seen)
                    => sess'[s].consecutiveEmptyScreenshots
                          <= sess[s].consecutiveEmptyScreenshots]_vars

\* C26: stuckCount and the consecutive-empty count are both zero at the end of
\* every extraction iteration in which at least one new item was accepted,
\* whatever they were before: they are zero once the outcome is recorded, the
\* aggressive scroll is not taken, and the scroll that ends the iteration
\* leaves them at zero.
C26_CountersResetOnGrowth ==
    [][\A s \in Sessions :
          /\ (sess[s].pc = "it_extract" /\ Len(sess'[s].allTweets) > Len(sess[s].allTweets)) =>
                /\ sess'[s].stuckCount = 0
                /\ sess'[s].consecutiveEmptyScreenshots = 0
                /\ sess'[s].pc # "it_aggr"
          /\ (sess[s].pc = "it_scroll" /\ sess[s].barrenRun = 0
                  /\ sess'[s].pc \in {"it_shot", "cleanup1", "rs_up"}) =>
                /\ sess'[s].stuckCount = 0
                /\ sess'[s].consecutiveEmptyScreenshots = 0]_vars

\* The first iteration of a call added nothing (both counters were 1), the
\* second accepted an item: both counters are 0 at its scroll.
C26_Witness ==
    \E s \in Sessions :
        /\ sess[s].pc = "it_scroll" /\ sess[s].iterations = 2
        /\ sess[s].barren /\ sess[s].barrenRun = 0 /\ sess[s].recoveries = 0
        /\ Len(sess[s].allTweets) = 1
        /\ sess[s].stuckCount = 0 /\ sess[s].consecutiveEmptyScreenshots = 0

\* C27: where the recovery threshold is checked, stuckCount is the number of
\* iterations in a row, the current one included, that added no item since
\* the last accepted item or the last aggressive scroll; every iteration that
\* adds no item (no new candidate, a failed extraction, a failed screenshot)
\* increments it.
C27_StuckCountsBarrenRun ==
    /\ [](\A s \in Sessions :
             sess[s].pc \in {"it_shot", "it_extract", "it_aggr", "it_scroll"} =>
                 sess[s].stuckCount = sess[s].barrenRun)
    /\ [][\A s \in Sessions :
             (sess[s].pc \in {"it_shot", "it_extract"}
                  /\ sess'[s].iterations = sess[s].iterations + 1
                  /\ Len(sess'[s].allTweets) = Len(sess[s].allTweets)) =>
                 sess'[s].stuckCount = sess[s].stuckCount + 1]_vars

\* An item was accepted in the first iteration and the next two added
\* nothing: stuckCount is 2 at the scroll of the third.
C27_Witness ==
    \E s \in Sessions :
        /\ sess[s].pc = "it_scroll" /\ sess[s].iterations = 3
        /\ Len(sess[s].allTweets) = 1 /\ sess[s].recoveries = 0
        /\ sess[s].barrenRun = 2 /\ sess[s].stuckCount = 2

\* C28: an extraction iteration applies one corrective action: the ordinary
\* scroll only when the aggressive scroll was not done, the aggressive scroll
\* only when the threshold was met, never both: the aggressive scroll is
\* awaited only with the threshold met, and the ordinary scroll of the same
\* iteration does not follow it.
C28_OneCorrectiveAction ==
    /\ [](\A s \in Sessions : sess[s].pc = "it_aggr" => ThresholdReached(s))
    /\ [][\A s \in Sessions : sess[s].pc = "it_aggr" => sess'[s].pc # "it_scroll"]_vars

\* C29: at every point of the extraction loop and of the rescan the seen keys
\* and the accumulator correspond one to one: the key of every accumulated
\* item is in seen, every key in seen is the key of exactly one accumulated
\* item, and the two have the same size.
C29_SeenMatchesAccumulator ==
    \A s \in Sessions :
        sess[s].pc \in {"it_shot", "it_extract", "it_aggr", "it_scroll",
                        "rs_up", "rs_shot", "rs_extract", "rs_scroll"} =>
            LET acc == sess[s].allTweets IN
            /\ \A k \in 1..Len(acc) : DedupKey(acc[k]) \in sess[s].seen
            /\ \A key \in sess[s].seen :
                  Cardinality({k \in 1..Len(acc) : DedupKey(acc[k]) = key}) = 1
            /\ Cardinality(sess[s].seen) = Len(acc)

\* Two items are accumulated under two keys, after an iteration that added
\* nothing.
C29_Witness ==
    \E s \in Sessions :
        /\ sess[s].pc = "it_shot" /\ sess[s].barren
        /\ Len(sess[s].allTweets) = 2 /\ Cardinality(sess[s].seen) = 2

\* The candidates of the answer res that handler s has to accept: those whose
\* key has at least 11 characters, is not in seenKeys and is not the key of
\* an earlier candidate of the answer; all of them while the accumulator is
\* below the target, in the order of the answer.
FreshCandidates(s, res) ==
    {k \in 1..Len(res.tweets) :
        LET key == DedupKey(res.tweets[k]) IN
        /\ TextLen(key) >= 11
        /\ key \notin sess[s].seen
        /\ \A j \in 1..(k - 1) : DedupKey(res.tweets[j]) # key}
NthFresh(s, res, n) ==
    CHOOSE k \in FreshCandidates(s, res) :
        Cardinality({j \in FreshCandidates(s, res) : j < k}) = n - 1
Room(s) == Max(0, sess[s].target - Len(sess[s].allTweets))

\* C30: a candidate is accepted into the accumulator iff its key has at least
\* 11 characters and is not already in seenKeys, the accumulator being below
\* the target: an iteration appends exactly those candidates of its answer, in
\* order, and adds exactly their keys to seenKeys; a candidate whose key is
\* shorter than 11 characters is never accumulated and its key never seen.
C30_AcceptedIffSubstantialAndNew ==
    /\ [](\A s \in Sessions :
             /\ \A key \in sess[s].seen : TextLen(key) >= 11
             /\ \A k \in 1..Len(sess[s].allTweets) : TextLen(DedupKey(sess[s].allTweets[k])) >= 11)
    /\ [][\A s \in Sessions : \A res \in ExtractionResults :
             IterationAnswered(s, res) =>
                 LET n == Min(Cardinality(FreshCandidates(s, res)), Room(s))
                     accepted == [i \in 1..n |-> res.tweets[NthFresh(s, res, i)]] IN
                 /\ sess'[s].allTweets = sess[s].allTweets \o accepted
                 /\ sess'[s].seen = sess[s].seen \cup {DedupKey(accepted[i]) : i \in 1..n}]_vars

\* The first answer of a call held a candidate of 10 characters and one of
\* 11: the second alone was accepted.
C30_Witness ==
    \E s \in Sessions :
        /\ sess[s].iterations = 1
        /\ sess[s].answer = << [success |-> TRUE,
                                tweets |-> << Candidate(TxtShort), Candidate(TxtHead) >>] >>
        /\ sess[s].allTweets = << Candidate(TxtHead) >>
        /\ sess[s].seen = {DedupKey(Candidate(TxtHead))}

\* ------------------------------------------------------------------- C31

\* max(5, ceil(n / 2)) as the least count of at least five whose double
\* covers n.
PrefetchFor(n) ==
    CHOOSE k \in MinPrefetchScrolls..MaxMaxResults :
        /\ 2 * k >= n
        /\ k = MinPrefetchScrolls \/ 2 * (k - 1) < n

\* C31: an extraction is asked of the oracle only after the browser has
\* received max(5, ceil(target / 2)) prefetch scrolls down and then ten
\* scrolls up; no scroll up precedes the last prefetch scroll; the prefetch
\* count is at least five and does not decrease when the target grows.
C31_PrefetchThenTopBeforeExtraction ==
    /\ \A s \in DOMAIN sess :
        /\ sess[s].downs > 0 => sess[s].downs <= PrefetchFor(sess[s].target)
        /\ sess[s].ups <= TopScrolls
        /\ sess[s].ups > 0 => sess[s].downs = PrefetchFor(sess[s].target)
        /\ (sess[s].requested > 0 \/ sess[s].candidates \/ sess[s].iterations > 0) =>
              /\ sess[s].downs = PrefetchFor(sess[s].target)
              /\ sess[s].ups = TopScrolls
    /\ \A n \in MinMaxResults..MaxMaxResults :
        /\ ScrollCount(n) = PrefetchFor(n)
        /\ ScrollCount(n) >= MinPrefetchScrolls
        /\ n < MaxMaxResults => ScrollCount(n) <= ScrollCount(n + 1)

\* An extraction is pending for a target whose prefetch is longer than the
\* minimum.
C31_Witness ==
    \E s \in DOMAIN sess :
        /\ sess[s].pc = "it_extract"
        /\ sess[s].iterations = 0
        /\ sess[s].requested > 0
        /\ sess[s].downs > MinPrefetchScrolls
        /\ sess[s].ups = TopScrolls

\* ------------------------------------------------------------------- C34

\* C34: once the outcome of an iteration is recorded, and again after the
\* reset of the aggressive scroll, stuckCount equals the consecutive-empty
\* count; the consecutive-empty count stays below 5 and stuckCount never
\* exceeds 3, so whenever the aggressive scroll is about to be done it is
\* stuckCount >= 3 that holds.
C34_StuckEqualsConsecutiveEmpty ==
    \A s \in DOMAIN sess :
        /\ sess[s].stuckCount = sess[s].consecutiveEmptyScreenshots
        /\ sess[s].consecutiveEmptyScreenshots < maxConsecutiveEmpty
        /\ sess[s].stuckCount <= StuckThreshold
        /\ sess[s].pc = "it_aggr" => sess[s].stuckCount >= StuckThreshold
        /\ sess[s].pc \in LoopPcs => sess[s].lastTweetCount = Len(sess[s].allTweets)

\* The aggressive scroll is about to be done after iterations of which one
\* added an item and later ones added none.
C34_Witness ==
    \E s \in DOMAIN sess :
        /\ sess[s].pc = "it_aggr"
        /\ sess[s].stuckCount = StuckThreshold
        /\ sess[s].consecutiveEmptyScreenshots = StuckThreshold
        /\ Len(sess[s].allTweets) > 0

\* ------------------------------------------------------------------- C35

\* C35: a call in which a browser command threw inside the extraction loop
\* after items were accepted returns the accepted items.
C35_AcceptedItemsSurviveThrow ==
    \A s \in Sessions :
        Returned(s) /\ sess[s].failed /\ Len(sess[s].allTweets) >= 1 =>
            sess[s].result = ToTweets(Slice(sess[s].allTweets, sess[s].target))

\* ------------------------------------------------------------------- C36

\* C36: a call of searchTwitter made on an initialized agent never raises and
\* returns at most targetCount items, whatever the browser and the oracle do:
\* such a call starts at the try block, init() is never entered from inside
\* the try block, a call raises only from a step of init(), and what a call
\* returns is never longer than its target.
C36_InitializedNeverRaises ==
    /\ [][\A s \in Sessions :
            /\ (sess[s].pc = "idle" /\ sess'[s].pc # "idle" /\ initialized) =>
                    sess'[s].pc = "open"
            /\ sess'[s].pc \in InitPcs => sess[s].pc \in InitPcs \cup {"idle"}
            /\ (sess'[s].outcome = "raised" /\ sess[s].outcome # "raised") =>
                    sess[s].pc \in InitPcs]_vars
    /\ [](\A s \in Sessions :
            /\ sess[s].pc \in InitPcs => sess[s].outcome = "none"
            /\ Returned(s) => Len(sess[s].result) <= sess[s].target)

\* A call made on an initialized agent while Chrome was unreachable (an agent
\* that is not initialized raises at isConnected) had its commands fail and
\* returned the empty sequence.
C36_Witness ==
    \E s \in Sessions :
        /\ Returned(s) /\ ~sess[s].connAtStart /\ sess[s].failed
        /\ sess[s].via = "error" /\ sess[s].result = << >>

\* ------------------------------------------------------------------- C37

\* C37: a harvested item for which the oracle reported no timestamp, or one
\* that is no date, is not let through the age filter of checkBreakingNews:
\* no item is emitted for it, with is_breaking or without.
C37_NoFreshWithoutTimestamp ==
    \A s \in Sessions :
        Classified(s) /\ sess[s].via = "loop" =>
            \A k \in 1..Len(sess[s].result) :
                sess[s].allTweets[k].created_at.kind # "iso" => ~Emitted(s, k)

\* ------------------------------------------------------------------- C38

\* C38: within one call the aggressive scroll is about to be done only three
\* or more iterations after the iteration that did the last one (after the
\* start of the loop for the first), so that it is done at most 16 times in
\* the 50 iterations of the budget; the iteration that does it adds one to
\* scrollAttempts like any other, at its ordinary scroll.
C38_RecoveriesThreeApart ==
    /\ [](\A s \in Sessions :
        /\ sess[s].recoveredAt <= sess[s].iterations
        /\ sess[s].pc = "it_aggr" => sess[s].iterations - sess[s].recoveredAt >= StuckThreshold
        /\ StuckThreshold * sess[s].recoveries <= sess[s].iterations
        /\ sess[s].recoveries <= maxScrollAttempts \div StuckThreshold
        /\ sess[s].pc \in {"it_shot", "it_extract"} => sess[s].scrollAttempts = sess[s].iterations
        /\ sess[s].pc \in {"it_aggr", "it_scroll"} =>
              sess[s].scrollAttempts = sess[s].iterations - 1)
    /\ [][\A s \in Sessions :
            sess[s].pc = "it_aggr" =>
                /\ sess'[s].scrollAttempts = sess[s].scrollAttempts
                /\ sess'[s].recoveries = sess[s].recoveries + 1 => sess'[s].pc = "it_scroll"]_vars

\* A call whose 50 iterations added nothing did its sixteenth aggressive
\* scroll in iteration 48.
C38_Witness ==
    \E s \in Sessions :
        /\ sess[s].recoveries = 16
        /\ sess[s].recoveredAt = 48
        /\ sess[s].pc = "it_shot"
        /\ sess[s].scrollAttempts = 49

\* ------------------------------------------------------------------- C32

\* The invocations of runHealthCheck whose pm2 restart command is running.
Restarting == {k \in DOMAIN monitor.check : monitor.check[k].pc = "pm2"}

\* C32: a pm2 restart is issued only by an invocation of runHealthCheck whose
\* check failed and counted MAX_FAILURES or more failed checks in a row since
\* the last healthy check or the last restart that succeeded; the counter is
\* that number, a healthy check sets it to zero, and a failed check that
\* counted fewer goes on to neither the notification nor the restart.
C32_RestartOnlyAtMaxFailures ==
    /\ [](/\ monitor.consecutiveFailures = monitor.streak
          /\ \A k \in DOMAIN monitor.check :
                /\ monitor.check[k].pc \in {"notify", "pm2", "notified"} =>
                      /\ ~monitor.check[k].healthy
                      /\ monitor.check[k].at >= MAX_FAILURES
                /\ monitor.check[k].pc \in {"status", "enable"} => monitor.check[k].healthy)
    /\ [][\A k \in DOMAIN monitor.check :
            /\ (monitor.check[k].pc = "health" /\ monitor'.check[k].healthy
                   /\ monitor'.check[k].pc # "health") =>
                    monitor'.consecutiveFailures = 0
            /\ (monitor.check[k].pc = "health" /\ ~monitor'.check[k].healthy) =>
                    /\ monitor'.check[k].at = monitor.streak + 1
                    /\ monitor'.check[k].at < MAX_FAILURES =>
                          /\ monitor'.check[k].pc = "idle"
                          /\ monitor'.isRestarting = monitor.isRestarting
            /\ (monitor.check[k].pc # "pm2" /\ monitor'.check[k].pc = "pm2") =>
                    monitor.check[k].pc \in {"health", "notify"}]_vars

\* The third failed check in a row has its pm2 restart running, no webhook
\* being configured.
C32_Witness ==
    \E k \in DOMAIN monitor.check :
        /\ monitor.check[k].pc = "pm2"
        /\ monitor.check[k].at = MAX_FAILURES
        /\ monitor.streak = MAX_FAILURES
        /\ ~monitor.discord

\* ------------------------------------------------------------------- C39

\* C39: at most one pm2 restart command runs at a time, and it runs only with
\* isRestarting set; an invocation that comes to restartService while
\* isRestarting is set returns without running the command.
C39_OneRestartInFlight ==
    /\ [](/\ Cardinality(Restarting) <= 1
          /\ Restarting # {} => monitor.isRestarting
          /\ \A k \in DOMAIN monitor.check :
                monitor.check[k].skipped => monitor.check[k].at >= MAX_FAILURES)
    /\ [][\A k \in DOMAIN monitor.check :
            (/\ monitor.isRestarting
             /\ \/ monitor.check[k].pc = "notify"
                \/ monitor.check[k].pc = "health" /\ ~monitor'.check[k].healthy
                     /\ monitor'.check[k].at >= MAX_FAILURES /\ ~monitor.discord
             /\ monitor'.check[k] # monitor.check[k]) =>
                /\ monitor'.check[k].pc = "idle"
                /\ monitor'.check[k].skipped
                /\ Restarting' = Restarting]_vars

\* While the restart of one invocation runs, an overlapping invocation failed
\* its check, came to restartService and skipped it.
C39_Witness ==
    \E j, k \in DOMAIN monitor.check :
        /\ j # k
        /\ monitor.check[j].pc = "pm2"
        /\ monitor.check[k].skipped
        /\ monitor.check[k].pc = "idle"

\* ------------------------------------------------------------------- C33

\* The path holds /api/ somewhere.
ApiPath(path) ==
    \E k \in 1..(TextLen(path) - 4) : SubSeq(Chars(path), k, k + 4) = <<"/", "a", "p", "i", "/">>

\* C33: a GET request whose path holds /api/ never goes to caches.match and
\* is answered by the network response, or by the 503 JSON response when the
\* network fails (a request of another origin is left to the browser, the
\* worker answering nothing); no such path is written to the cache nor handed
\* to cache.put.
C33_ApiNeverCached ==
    /\ \A u \in worker.cache \cup worker.pending : ~ApiPath(u)
    /\ (worker.event.request.method = "GET" /\ ApiPath(worker.event.request.path)) =>
          /\ worker.event.pc \in {"none", "api_fetch", "done"}
          /\ worker.event.pc = "done" =>
                worker.event.answer \in
                    (IF worker.event.request.sameOrigin THEN {"network", "503"} ELSE {"browser"})

\* With /mahoraga/index.html cached, a GET of /api/logs whose fetch failed
\* was answered by the 503 response.
C33_Witness ==
    /\ worker.event.pc = "done"
    /\ worker.event.request.method = "GET"
    /\ worker.event.request.sameOrigin
    /\ worker.event.request.path = Url.ApiLogs
    /\ worker.event.request.document
    /\ worker.event.answer = "503"
    /\ Url.Index \in worker.cache
    /\ Url.App \in worker.cache

====
